---- MODULE Spec2Model ----
(***************************************************************************)
(* A model of snap-dnd's drag orchestration core:                          *)
(*   DragState    (src/src/core/DragState.ts)   the session state machine  *)
(*   PointerSensor(src/unnamed/part_002)        the gesture sensor         *)
(*   RAFThrottle  (src/src/utils/RAFThrottle.ts) the move coalescer        *)
(*   DragEngine   (src/src/core-only.ts)        the orchestration engine   *)
(*   Snap         (src/src/core/Snap.ts)        the facade                 *)
(*                                                                         *)
(* Spec         drives DragState alone through its public methods.         *)
(* SpecEngine   drives a Snap instance through native pointer events,      *)
(*              timer and frame ticks and the facade's enable/disable/     *)
(*              destroy.                                                   *)
(* SpecThrottle drives one RAFThrottle through queue, flush, cancel and    *)
(*              the browser's frame ticks.                                 *)
(* SpecMove     drives a Snap instance configured with an axis, a grid and *)
(*              a per-item axis through presses, moves and releases.       *)
(* SpecZones    drives a Snap instance through presses, moves and releases *)
(*              while drop zones are added, removed and re-scanned.        *)
(* SpecHits     drives instances with overlapping, partly imperatively     *)
(*              registered zones through presses, moves and releases.      *)
(* SpecRegistry calls register, unregister and containsPoint on a           *)
(*              DropZoneManager by itself.                                 *)
(* SpecSortable drives an instance with the Sortable plugin, SpecKanban    *)
(*              one with the Kanban plugin.                                *)
(* SpecReentrant drives DragState with a once() listener that calls        *)
(*              startDrag from inside an emit.                             *)
(* SpecHandle   drives a Snap instance whose user calls the cancel() of a  *)
(*              start event after its session ended.                       *)
(* SpecEmitter  calls on, off, emit and the unsubscribe functions of an    *)
(*              EventEmitter.                                              *)
(* SpecCache    calls the methods of the shared BoundsCache.               *)
(* SpecCoalesce gives a RAFThrottle and a rafThrottle function the same    *)
(*              calls and frame ticks.                                     *)
(* SpecFiles    drags files over a container with the FileDrop plugin and  *)
(*              createFileDropZone zones.                                  *)
(* SpecFind     applies PointerSensor._findDraggable to dispatch paths.    *)
(* SpecGrid     applies the engine's axis-then-grid transform and          *)
(*              SnapGrid.snap to every point of a bounded set.             *)
(* SpecInsertion applies the three insertion-index scans to every layout   *)
(*              and cursor of a bounded set.                               *)
(***************************************************************************)
EXTENDS Integers, Sequences, FiniteSets, TLC

\* ------------------------------------------------------------ bounds
\* Longest notification history kept by a run of Spec.
MaxEvents == 8
\* Most sessions DragState creates in a run of Spec.
MaxSessions == 3
\* Most presses the sensor tracks in a run of SpecEngine.
MaxPresses == 2
\* Most native pointermove events within one press.
MaxMoves == 2
\* Most RAFThrottle.queue calls in a run of SpecThrottle.
MaxQueued == 4
\* Most candidate items in a layout of SpecInsertion, and the largest cursor
\* coordinate tried on the generated layouts.
MaxItems == 3
MaxCursor == 13
\* The largest raw pointer coordinate tried in SpecGrid.
MaxCoord == 7
MaxRegistryCalls == 4
MaxPath == 5
MaxCacheCalls == 5
MaxEmitterCalls == 5
MaxThrottleCalls == 5
MaxFileEvents == 7
\* The delay option (ms) and the distance option (px) when configured.
DelayMs == 100
DistancePx == 3

\* ------------------------------------------------------------ values
Elements == {"a", "b"}
Zones == {"z1", "z2"}
NoZone == "none"
Points == {[x |-> 0, y |-> 0], [x |-> 2, y |-> 1], [x |-> 5, y |-> 1]}
DataKinds == {"task", "other"}
\* The null session: a record no session equals (ids start at 1).
NoSession == [id |-> 0]
NoElement == "none"
NoPoint == [none |-> TRUE]
NoGrid == [none |-> TRUE]
NoPointer == "none"
NoGhost == 0
NoSnapshot == [none |-> TRUE]
PrimaryPointer == "primary"
\* What the user's onDragStart callback may do.
StartReplies == {"ok", "false", "cancel"}

VARIABLES
  session,     \* DragState._session
  idCounter,   \* DragState._idCounter
  emitted,     \* every notification DragState emitted, in order
  returned,    \* what the last DragState method returned
  lastCall     \* the last DragState method called from outside, and its
               \* element or zone argument

stateVars == <<session, idCounter, emitted, returned, lastCall>>

VARIABLES
  sensor,      \* PointerSensor's fields, with its RAFThrottle's
  engine,      \* DragEngine's fields and the DOM state it owns
  snap,        \* Snap's fields
  cache,       \* the shared BoundsCache
  heard        \* every callback delivered since the current press began

engineVars == <<sensor, engine, snap, cache, heard>>

VARIABLES
  throttle,    \* a RAFThrottle on its own, with the frames it requested
  probe        \* the arguments and the result of a pure function under test

unitVars == <<throttle, probe>>

vars == <<session, idCounter, emitted, returned, lastCall,
          sensor, engine, snap, cache, heard, throttle, probe>>

\* new DragState()
InitState ==
  /\ session = NoSession
  /\ idCounter = 0
  /\ emitted = <<>>
  /\ returned = NoSession
  /\ lastCall = [op |-> "new", arg |-> NoZone]

\* ------------------------------------------------------------ DragState
\* The state machine as a value, so that a method is an operator on it.
DS(s, c, e) == [session |-> s, idCounter |-> c, emitted |-> e, ret |-> NoSession]

\* EventEmitter.emit as DragState uses it: the listeners get the session
\* object as it is at that moment; `by` is the method that holds the emit,
\* and `seen` the phase of the session a listener reads from
\* DragState.session while it runs ("none" for null).
emit(st, type, s, by) ==
  [st EXCEPT !.emitted = Append(@,
     [type |-> type, id |-> s.id, element |-> s.element, phase |-> s.phase,
      dropZone |-> s.dropZone, by |-> by,
      seen |-> IF st.session = NoSession THEN "none" ELSE st.session.phase])]

\* cancelDrag without `this._session = null`.
cancelDrag_KeepsSession(st) ==
  IF st.session = NoSession THEN [st EXCEPT !.ret = NoSession]
  ELSE LET s == [st.session EXCEPT !.phase = "cancelled", !.dropZone = NoZone]
       IN [emit([st EXCEPT !.session = s], "dragend", s, "cancelDrag")
             EXCEPT !.session = s, !.ret = s]

cancelDrag(st) ==
  IF st.session = NoSession THEN [st EXCEPT !.ret = NoSession]
  ELSE LET s == [st.session EXCEPT !.phase = "cancelled", !.dropZone = NoZone]
       IN [emit([st EXCEPT !.session = s], "dragend", s, "cancelDrag")
             EXCEPT !.session = NoSession, !.ret = s]

\* startDrag without the `if (this._session) this.cancelDrag()` hand-off.
startDrag_NoHandoff(st, element, origin, data) ==
  LET s == [id |-> st.idCounter + 1, element |-> element, origin |-> origin,
            current |-> origin, delta |-> [x |-> 0, y |-> 0], data |-> data,
            dropZone |-> NoZone, phase |-> "dragging"]
      st2 == [st EXCEPT !.idCounter = @ + 1, !.session = s]
  IN [emit(st2, "dragstart", s, "startDrag") EXCEPT !.ret = s]

startDrag(st, element, origin, data) ==
  LET st1 == IF st.session # NoSession THEN cancelDrag(st) ELSE st
      s == [id |-> st1.idCounter + 1, element |-> element, origin |-> origin,
            current |-> origin, delta |-> [x |-> 0, y |-> 0], data |-> data,
            dropZone |-> NoZone, phase |-> "dragging"]
      st2 == [st1 EXCEPT !.idCounter = @ + 1, !.session = s]
  IN [emit(st2, "dragstart", s, "startDrag") EXCEPT !.ret = s]

updatePosition(st, point) ==
  IF st.session = NoSession \/ st.session.phase # "dragging" THEN st
  ELSE LET s == [st.session EXCEPT
                   !.current = point,
                   !.delta = [x |-> point.x - st.session.origin.x,
                              y |-> point.y - st.session.origin.y]]
       IN emit([st EXCEPT !.session = s], "dragmove", s, "updatePosition")

\* setDropTarget emitting the enter for the new zone before the leave.
setDropTarget_EnterFirst(st, zone) ==
  IF st.session = NoSession THEN st
  ELSE LET previous == st.session.dropZone IN
    IF previous = zone THEN st
    ELSE LET s2 == [st.session EXCEPT !.dropZone = zone]
             st1 == IF zone # NoZone
                    THEN emit([st EXCEPT !.session = s2], "dropzoneenter", s2, "setDropTarget")
                    ELSE [st EXCEPT !.session = s2]
         IN IF previous # NoZone
            THEN emit(st1, "dropzoneleave", s2, "setDropTarget")
            ELSE st1

\* setDropTarget without the leave for the previous zone.
setDropTarget_NoLeave(st, zone) ==
  IF st.session = NoSession THEN st
  ELSE IF st.session.dropZone = zone THEN st
  ELSE LET s2 == [st.session EXCEPT !.dropZone = zone]
       IN IF zone # NoZone
          THEN emit([st EXCEPT !.session = s2], "dropzoneenter", s2, "setDropTarget")
          ELSE [st EXCEPT !.session = s2]

setDropTarget(st, zone) ==
  IF st.session = NoSession THEN st
  ELSE LET previous == st.session.dropZone IN
    IF previous = zone THEN st
    ELSE LET st1 == IF previous # NoZone
                    THEN LET s1 == [st.session EXCEPT !.dropZone = NoZone]
                         IN emit([st EXCEPT !.session = s1], "dropzoneleave", s1, "setDropTarget")
                    ELSE st
             st2 == IF zone # NoZone
                    THEN LET s2 == [st1.session EXCEPT !.dropZone = zone]
                         IN emit([st1 EXCEPT !.session = s2], "dropzoneenter", s2, "setDropTarget")
                    ELSE st1
         IN st2

\* endDrag without the `if (session.dropZone)` test around the drop.
endDrag_AlwaysDrop(st) ==
  IF st.session = NoSession THEN [st EXCEPT !.ret = NoSession]
  ELSE LET s == [st.session EXCEPT !.phase = "dropping"]
       IN [emit(emit([st EXCEPT !.session = s], "drop", s, "endDrag"), "dragend", s, "endDrag")
             EXCEPT !.session = NoSession, !.ret = s]

endDrag(st) ==
  IF st.session = NoSession THEN [st EXCEPT !.ret = NoSession]
  ELSE LET s == [st.session EXCEPT !.phase = "dropping"]
           st0 == [st EXCEPT !.session = s]
           st1 == IF s.dropZone # NoZone THEN emit(st0, "drop", s, "endDrag") ELSE st0
       IN [emit(st1, "dragend", s, "endDrag") EXCEPT !.session = NoSession, !.ret = s]

reset(st) == IF st.session # NoSession THEN cancelDrag(st) ELSE st

\* ------------------------------------------------------------ the DOM
\* Document order of the container's [data-droppable] elements.
DeclaredZones == <<"z1", "z2">>

\* An element of the container without the data-droppable attribute: a drop
\* zone only while registered with addDropZone.
PlainZone == "z3"

\* element.getBoundingClientRect() of each drop zone (a static layout): z1
\* lies inside z2, and the plain element overlaps both.
Rect(zone) ==
  IF zone = "z1" THEN [left |-> 2, right |-> 3, top |-> 1, bottom |-> 2]
  ELSE IF zone = PlainZone THEN [left |-> 0, right |-> 5, top |-> 0, bottom |-> 1]
  ELSE [left |-> 2, right |-> 6, top |-> 0, bottom |-> 2]

\* The data-drag-* attributes of each draggable.
extractDataAttributes(element) == IF element = "a" THEN "task" ELSE "other"

pointInRect(x, y, rect) ==
  x >= rect.left /\ x <= rect.right /\ y >= rect.top /\ y <= rect.bottom

\* ------------------------------------------------------------ callbacks
\* One delivered callback: to a behavior (Snap._setupStateListeners), to a
\* plugin or behavior's destroy(), or to the public stream (Snap._wrapCallbacks:
\* snap.on listeners, then the option callback).  `sid` is the id of the last
\* session DragState created; `reply` is what the user's onDragStart did.
Callback(who, what, element, zone, cancelled, sid, reply) ==
  [who |-> who, what |-> what, element |-> element, zone |-> zone,
   cancelled |-> cancelled, sid |-> sid, reply |-> reply]

\* Snap._setupStateListeners: dragstart, dragmove and dragend go to every
\* registered behavior, in registration order, while subscribed.
BehaviorHook(type) ==
  IF type = "dragstart" THEN "onDragStart"
  ELSE IF type = "dragmove" THEN "onDragMove" ELSE "onDragEnd"

notify(w, st2) ==
  LET new == SubSeq(st2.emitted, Len(w.st.emitted) + 1, Len(st2.emitted))
      fwd == SelectSeq(new, LAMBDA ev : ev.type \in {"dragstart", "dragmove", "dragend"})
      nb == Len(w.snap.behaviors)
      calls == [k \in 1..(Len(fwd) * nb) |->
                 LET ev == fwd[((k - 1) \div nb) + 1]
                 IN Callback(w.snap.behaviors[((k - 1) % nb) + 1], BehaviorHook(ev.type),
                             ev.element, ev.dropZone, ev.phase = "cancelled", ev.id, "none")]
  IN [w EXCEPT !.st = st2,
               !.heard = IF w.snap.stateSubs THEN @ \o calls ELSE @]

\* ------------------------------------------------------------ BoundsCache
boundsCache_get(w, zone) ==
  [w EXCEPT !.cache.cached = @ \cup {zone}, !.cache.dirty = @ \ {zone}]

boundsCache_invalidateAll(w) == [w EXCEPT !.cache.invalidateAll = TRUE]

\* ------------------------------------------------------------ DragEngine
\* DragEngine._applyAxisConstraint passing the point through.
applyAxisConstraint_PassThrough(position, origin, axis) == position

applyAxisConstraint(position, origin, axis) ==
  IF axis = "x" THEN [x |-> position.x, y |-> origin.y]
  ELSE IF axis = "y" THEN [x |-> origin.x, y |-> position.y]
  ELSE position

\* Math.round(v / g) for integers v and g > 0: floor(v / g + 1/2).
Round(v, g) == (2 * v + g) \div (2 * g)

\* DragEngine._applyGridSnap with Math.floor in place of Math.round.
applyGridSnap_Floor(position, grid) ==
  [x |-> (position.x \div grid.x) * grid.x, y |-> (position.y \div grid.y) * grid.y]

applyGridSnap(position, grid) ==
  [x |-> Round(position.x, grid.x) * grid.x, y |-> Round(position.y, grid.y) * grid.y]

\* Snap._getDropZones: declarative zones, then imperative ones, each once.
InSeq(x, seq) == \E i \in 1..Len(seq) : seq[i] = x

getDropZones(w) ==
  DeclaredZones \o
  SelectSeq(w.snap.imperativeDropZones, LAMBDA z : ~InSeq(z, DeclaredZones))

\* The classes the engine puts on the dragged element.
DragClasses(w, element) ==
  {<<element, "snap-dragging">>} \cup
  (IF w.snap.options.ghostClass # "none"
   THEN {<<element, w.snap.options.ghostClass>>} ELSE {})

\* The ghost node cloned for the gesture of session n is node n of
\* document.body; _ghost holds the node (NoGhost for null).
createGhost(w, element) ==
  [w EXCEPT !.engine.ghost = w.st.idCounter,
            !.engine.bodyGhosts = @ \cup {w.st.idCounter}]

removeGhost(w) ==
  IF w.engine.ghost # NoGhost
  THEN [w EXCEPT !.engine.ghost = NoGhost, !.engine.bodyGhosts = @ \ {w.engine.ghost}]
  ELSE w

cleanup(w, element) ==
  removeGhost([w EXCEPT !.engine.classes = @ \ DragClasses(w, element)])

\* ------------------------------------------------------------ insertion index
Abs(v) == IF v < 0 THEN -v ELSE v

\* rectCenter(rect) is (left + width / 2, top + height / 2); a coordinate is
\* compared with it doubled, which keeps the halves exact.
BeforeCenterY(y, rect) == 2 * y < 2 * rect.top + rect.height

BeforeCenterX(x, rect) == 2 * x < 2 * rect.left + rect.width

\* The orientation test the three scans share.
IsVertical(items) ==
  Abs(items[Len(items)].top - items[1].top) > Abs(items[Len(items)].left - items[1].left)

\* The scan with the orientation taken from the candidates' count: a single
\* candidate is read as a column.
FirstAfter_SingleIsColumn(items, x, y) ==
  LET vertical == Len(items) = 1 \/ IsVertical(items)
      after == {i \in 1..Len(items) :
                  IF vertical THEN BeforeCenterY(y, items[i])
                              ELSE BeforeCenterX(x, items[i])}
  IN IF after = {} THEN Len(items)
     ELSE (CHOOSE i \in after : \A j \in after : i <= j) - 1

\* The scan: the index of the first candidate whose center lies after the
\* cursor, or the number of candidates (indices count from 0).
FirstAfter(items, x, y) ==
  LET after == {i \in 1..Len(items) :
                  IF IsVertical(items) THEN BeforeCenterY(y, items[i])
                                       ELSE BeforeCenterX(x, items[i])}
  IN IF after = {} THEN Len(items)
     ELSE (CHOOSE i \in after : \A j \in after : i <= j) - 1

\* DropZone.getInsertionIndex on the candidates (the items matching the
\* selector, without excludeElement).
DropZone_getInsertionIndex(items, x, y) ==
  IF Len(items) = 0 THEN 0 ELSE FirstAfter(items, x, y)

\* Kanban._calculateInsertionIndex on the candidates (without the active
\* element and the placeholder).
Kanban_calculateInsertionIndex(items, x, y) ==
  IF Len(items) = 0 THEN 0 ELSE FirstAfter(items, x, y)

\* Sortable._onDragMove: the new _currentIndex, with the adjustment for the
\* dragged item's original position.
Sortable_onDragMove(items, x, y, originalIndex) ==
  IF Len(items) = 0 THEN 0
  ELSE LET newIndex == FirstAfter(items, x, y)
       IN IF newIndex > originalIndex THEN newIndex + 1 ELSE newIndex


\* ------------------------------------------------------------ page
\* The container's tree: both draggables are children of the drop zone z1;
\* the other zones have no children.
InitChildren ==
  [z \in Zones \cup {PlainZone} |-> IF z = "z1" THEN <<"a", "b">> ELSE <<>>]

\* A third draggable, which the gestures never press.
StillItem == "c"

Draggables == Elements \cup {StillItem}

\* The tree of the page with the sortable list: the three draggables are
\* children of z1.
ListChildren == [InitChildren EXCEPT !["z1"] = <<"a", "b", StillItem>>]

\* getBoundingClientRect() of the draggables (a static layout: a row).
ItemRect(element) ==
  IF element = "a" THEN [left |-> 2, width |-> 1, top |-> 1, height |-> 1]
  ELSE IF element = "b" THEN [left |-> 3, width |-> 1, top |-> 1, height |-> 1]
  ELSE [left |-> 5, width |-> 1, top |-> 1, height |-> 1]

\* The div a plugin creates as the placeholder of session n.
PlaceholderNodes == <<"ph1", "ph2", "ph3", "ph4", "ph5", "ph6">>

NoNode == "none"

\* The 1-based place of the node in the sequence, 0 when it is not in it.
IndexIn(seq, node) ==
  IF \E i \in 1..Len(seq) : seq[i] = node
  THEN CHOOSE i \in 1..Len(seq) : seq[i] = node
  ELSE 0

\* node.parentNode
ParentNode(children, node) ==
  IF \E z \in DOMAIN children : IndexIn(children[z], node) # 0
  THEN CHOOSE z \in DOMAIN children : IndexIn(children[z], node) # 0
  ELSE NoNode

\* node.remove()
Detach(children, node) ==
  [z \in DOMAIN children |-> SelectSeq(children[z], LAMBDA c : c # node)]

\* parent.appendChild(node): the node leaves the place it had.
appendChild(children, parent, node) ==
  [Detach(children, node) EXCEPT ![parent] = Append(@, node)]

\* parent.insertBefore(node, ref)
insertBefore(children, parent, node, ref) ==
  LET rest == Detach(children, node)
      i == IndexIn(rest[parent], ref)
  IN [rest EXCEPT ![parent] = SubSeq(@, 1, i - 1) \o <<node>> \o SubSeq(@, i, Len(@))]

\* container.querySelectorAll('[data-draggable]'), in document order.
querySelectorAll(children, container) ==
  SelectSeq(children[container], LAMBDA c : c \in Draggables)

\* Snap.getActiveElement: DragState.getActiveElement
getActiveElement(w) ==
  IF w.st.session = NoSession THEN NoElement ELSE w.st.session.element

\* The candidates' rectangles, each read through the bounds cache.
ItemRects(items) == [i \in 1..Len(items) |-> ItemRect(items[i])]

\* The candidates the scan reads before it stops, with the first and the
\* last (read for the orientation).
ItemsRead(items, x, y) ==
  IF Len(items) = 0 THEN {}
  ELSE {items[1], items[Len(items)]} \cup
       {items[i] : i \in 1..(IF FirstAfter(ItemRects(items), x, y) < Len(items)
                              THEN FirstAfter(ItemRects(items), x, y) + 1
                              ELSE Len(items))}

boundsCache_getAll(w, elements) ==
  [w EXCEPT !.cache.cached = @ \cup elements, !.cache.dirty = @ \ elements]

\* ------------------------------------------------------------ Sortable
NoPlugin == [name |-> "none"]

SortableGhostClass == "snap-sortable-ghost"

\* The plugin after init(): its fields, and the page it works on.
NewSortable ==
  [name |-> "sortable", children |-> ListChildren, placeholder |-> NoNode,
   container |-> NoNode, originalIndex |-> -1, currentIndex |-> -1]

sortable_onDragStart(w, element) ==
  LET p == w.snap.plugin
      container == ParentNode(p.children, element)
  IN IF container = NoNode THEN [w EXCEPT !.snap.plugin.container = NoNode]
     ELSE LET originalIndex == IndexIn(querySelectorAll(p.children, container), element) - 1
              w1 == [w EXCEPT !.snap.plugin.container = container,
                              !.snap.plugin.originalIndex = originalIndex,
                              !.snap.plugin.currentIndex = originalIndex]
              node == PlaceholderNodes[w.st.idCounter]
          IN IF originalIndex = -1 THEN w1
             ELSE [w1 EXCEPT !.snap.plugin.placeholder = node,
                             !.snap.plugin.children = insertBefore(@, container, node, element),
                             !.engine.classes = @ \cup {<<element, SortableGhostClass>>}]

\* Sortable._movePlaceholder (the sibling animation changes styles only).
sortable_movePlaceholder(w, index) ==
  LET p == w.snap.plugin IN
  IF p.placeholder = NoNode \/ p.container = NoNode THEN w
  ELSE LET items == SelectSeq(querySelectorAll(p.children, p.container),
                              LAMBDA c : c # getActiveElement(w))
       IN IF index >= Len(items)
          THEN [w EXCEPT !.snap.plugin.children = appendChild(@, p.container, p.placeholder)]
          ELSE [w EXCEPT !.snap.plugin.children =
                           insertBefore(@, p.container, p.placeholder, items[index + 1])]

sortable_onDragMove(w, x, y) ==
  LET p == w.snap.plugin IN
  IF p.placeholder = NoNode \/ p.container = NoNode THEN w
  ELSE LET items == SelectSeq(querySelectorAll(p.children, p.container),
                              LAMBDA c : c # getActiveElement(w) /\ c # p.placeholder)
           newIndex == Sortable_onDragMove(ItemRects(items), x, y, p.originalIndex)
           w1 == boundsCache_getAll(w, ItemsRead(items, x, y))
       IN IF Len(items) = 0 THEN [w EXCEPT !.snap.plugin.currentIndex = 0]
          ELSE IF newIndex # p.currentIndex
          THEN sortable_movePlaceholder([w1 EXCEPT !.snap.plugin.currentIndex = newIndex],
                                        newIndex)
          ELSE w1

\* Sortable._cleanup: the element it clears the ghost class from is the one
\* getActiveElement() returns at that time.
sortable_cleanup(w) ==
  LET p == w.snap.plugin
      activeElement == getActiveElement(w)
  IN boundsCache_invalidateAll(
       [w EXCEPT !.snap.plugin.children = Detach(@, p.placeholder),
                 !.snap.plugin.placeholder = NoNode,
                 !.engine.classes = IF activeElement # NoElement
                                    THEN @ \ {<<activeElement, SortableGhostClass>>}
                                    ELSE @,
                 !.snap.plugin.container = NoNode,
                 !.snap.plugin.originalIndex = -1,
                 !.snap.plugin.currentIndex = -1])

\* The callbacks Sortable.init wraps around the instance's own.
sortable_hook(w, what, element) ==
  IF what = "dragstart" THEN sortable_onDragStart(w, element)
  ELSE IF what = "dragmove"
  THEN sortable_onDragMove(w, w.st.session.current.x, w.st.session.current.y)
  ELSE IF what = "dragend" THEN sortable_cleanup(w)
  ELSE w

\* ------------------------------------------------------------ Kanban
\* The elements matching options.containers ('[data-droppable]').
KanbanContainers == {DeclaredZones[i] : i \in 1..Len(DeclaredZones)}

KanbanTargetClass == "snap-kanban-target"

NewKanban ==
  [name |-> "kanban", children |-> InitChildren, placeholder |-> NoNode,
   sourceContainer |-> NoNode, targetContainer |-> NoNode,
   originalIndex |-> -1, currentIndex |-> -1]

\* element.closest(options.containers): the draggables' ancestors are their
\* parent and the Snap container.
closest(children, element) ==
  IF ParentNode(children, element) \in KanbanContainers
  THEN ParentNode(children, element) ELSE NoNode

kanban_onDragStart(w, element) ==
  LET p == w.snap.plugin
      source == closest(p.children, element)
      node == PlaceholderNodes[w.st.idCounter]
  IN IF source = NoNode THEN [w EXCEPT !.snap.plugin.sourceContainer = NoNode]
     ELSE [w EXCEPT !.snap.plugin.sourceContainer = source,
                    !.snap.plugin.originalIndex =
                       IndexIn(querySelectorAll(p.children, source), element) - 1,
                    !.snap.plugin.placeholder = node,
                    !.snap.plugin.children =
                       insertBefore(@, ParentNode(p.children, element), node, element)]

\* The candidates of a container: its items without the active element and
\* the placeholder.
kanban_items(w, container) ==
  SelectSeq(querySelectorAll(w.snap.plugin.children, container),
            LAMBDA c : c # getActiveElement(w) /\ c # w.snap.plugin.placeholder)

\* Kanban._movePlaceholder (the sibling animation changes styles only).
kanban_movePlaceholder(w, index) ==
  LET p == w.snap.plugin
      items == kanban_items(w, p.targetContainer)
  IN IF p.placeholder = NoNode \/ p.targetContainer = NoNode THEN w
     ELSE IF index >= Len(items)
     THEN [w EXCEPT !.snap.plugin.children = appendChild(@, p.targetContainer, p.placeholder)]
     ELSE [w EXCEPT !.snap.plugin.children =
                      insertBefore(@, p.targetContainer, p.placeholder, items[index + 1])]

kanban_onDragMove(w, x, y) ==
  LET p == w.snap.plugin IN
  IF p.targetContainer = NoNode \/ p.placeholder = NoNode THEN w
  ELSE LET items == kanban_items(w, p.targetContainer)
           newIndex == Kanban_calculateInsertionIndex(ItemRects(items), x, y)
           w1 == boundsCache_getAll(w, ItemsRead(items, x, y))
       IN IF newIndex # p.currentIndex
          THEN kanban_movePlaceholder([w1 EXCEPT !.snap.plugin.currentIndex = newIndex],
                                      newIndex)
          ELSE w1

\* Kanban._onDropZoneEnter taking every drop zone for a container.
kanban_onDropZoneEnter_AnyZone(w, dropZone) ==
  LET p == w.snap.plugin
      w1 == [w EXCEPT !.snap.plugin.targetContainer = dropZone,
                      !.engine.classes = @ \cup {<<dropZone, KanbanTargetClass>>}]
  IN IF p.placeholder # NoNode
     THEN [w1 EXCEPT !.snap.plugin.children = appendChild(@, dropZone, p.placeholder),
                     !.snap.plugin.currentIndex = Len(kanban_items(w1, dropZone))]
     ELSE w1

kanban_onDropZoneEnter(w, dropZone) ==
  LET p == w.snap.plugin
      w1 == [w EXCEPT !.snap.plugin.targetContainer = dropZone,
                      !.engine.classes = @ \cup {<<dropZone, KanbanTargetClass>>}]
  IN IF dropZone \notin KanbanContainers THEN w
     ELSE IF p.placeholder # NoNode
     THEN [w1 EXCEPT !.snap.plugin.children = appendChild(@, dropZone, p.placeholder),
                     !.snap.plugin.currentIndex = Len(kanban_items(w1, dropZone))]
     ELSE w1

\* Kanban._onDropZoneLeave keeping the placeholder where it is.
kanban_onDropZoneLeave_KeepsPlaceholder(w, dropZone) ==
  IF dropZone # w.snap.plugin.targetContainer THEN w
  ELSE [w EXCEPT !.engine.classes = @ \ {<<dropZone, KanbanTargetClass>>},
                 !.snap.plugin.targetContainer = NoNode,
                 !.snap.plugin.currentIndex = -1]

kanban_onDropZoneLeave(w, dropZone) ==
  IF dropZone # w.snap.plugin.targetContainer THEN w
  ELSE [w EXCEPT !.engine.classes = @ \ {<<dropZone, KanbanTargetClass>>},
                 !.snap.plugin.children = Detach(@, w.snap.plugin.placeholder),
                 !.snap.plugin.targetContainer = NoNode,
                 !.snap.plugin.currentIndex = -1]

\* Kanban._cleanup ('snap-kanban-source' is never added).
kanban_cleanup(w) ==
  LET p == w.snap.plugin
  IN boundsCache_invalidateAll(
       [w EXCEPT !.snap.plugin.children = Detach(@, p.placeholder),
                 !.snap.plugin.placeholder = NoNode,
                 !.engine.classes = @ \ {<<p.targetContainer, KanbanTargetClass>>},
                 !.snap.plugin.sourceContainer = NoNode,
                 !.snap.plugin.targetContainer = NoNode,
                 !.snap.plugin.originalIndex = -1,
                 !.snap.plugin.currentIndex = -1])

\* The callbacks Kanban.init wraps around the instance's own.
kanban_hook(w, what, element, zone) ==
  IF what = "dragstart" THEN kanban_onDragStart(w, element)
  ELSE IF what = "dragmove"
  THEN kanban_onDragMove(w, w.st.session.current.x, w.st.session.current.y)
  ELSE IF what = "dropzoneenter" THEN kanban_onDropZoneEnter(w, zone)
  ELSE IF what = "dropzoneleave" THEN kanban_onDropZoneLeave(w, zone)
  ELSE IF what = "dragend" THEN kanban_cleanup(w)
  ELSE w

\* ------------------------------------------------------------ callbacks
\* An option callback as the engine invokes it: the installed plugin's
\* wrapper runs the plugin's handler, then the callback it replaced.
pluginHook(w, what, element, zone) ==
  IF w.snap.plugin.name = "sortable" THEN sortable_hook(w, what, element)
  ELSE IF w.snap.plugin.name = "kanban" THEN kanban_hook(w, what, element, zone)
  ELSE w

\* Snap._wrapCallbacks: the wrapped option callback emits the public event.
public(w, what, element, zone, cancelled, reply) ==
  [pluginHook(w, what, element, zone) EXCEPT !.heard = Append(@,
     Callback("public", what, element, zone, cancelled, w.st.idCounter, reply))]

\* What a callback observes beside the fields every callback record has:
\* fields of its event object, or of the page at the time of the call.
withEvent(w, event) == [w EXCEPT !.heard[Len(w.heard)] = @ @@ event]

\* DragEngine._onPointerDown; `reply` is what the user's onDragStart does:
\* "ok" returns undefined, "false" returns false, "cancel" calls the event's
\* cancel() and returns undefined.
engine_onPointerDown(w, element, position, reply) ==
  LET afterCallback(w1) ==
        withEvent(public(w1, "dragstart", element, NoZone, FALSE, reply),
                  [dragging |-> <<element, "snap-dragging">> \in w1.engine.classes])
      afterCancel(w2) == IF reply = "cancel" THEN notify(w2, cancelDrag(w2.st)) ELSE w2
      afterReturn(w3) ==
        IF reply = "false" THEN notify(w3, cancelDrag(w3.st))
        ELSE boundsCache_invalidateAll(
               [createGhost(w3, element) EXCEPT
                  !.engine.classes = @ \cup DragClasses(w3, element)])
  IN afterReturn(afterCancel(afterCallback(
       notify(w, startDrag(w.st, element, position, extractDataAttributes(element))))))

\* The hit test without the `break`: the last zone holding the point wins.
FoundZone_LastHit(w, position) ==
  LET zs == getDropZones(w)
      hits == {i \in 1..Len(zs) : pointInRect(position.x, position.y, Rect(zs[i]))}
  IN IF hits = {} THEN NoZone
     ELSE zs[CHOOSE i \in hits : \A j \in hits : i >= j]

\* The first zone, in enumeration order, whose cached rectangle holds the point.
FoundZone(w, position) ==
  LET zs == getDropZones(w)
      hits == {i \in 1..Len(zs) : pointInRect(position.x, position.y, Rect(zs[i]))}
  IN IF hits = {} THEN NoZone
     ELSE zs[CHOOSE i \in hits : \A j \in hits : i <= j]

\* The zones the hit-test loop reads from the cache before it breaks.
ZonesRead(w, position) ==
  LET zs == getDropZones(w)
      hits == {i \in 1..Len(zs) : pointInRect(position.x, position.y, Rect(zs[i]))}
      last == IF hits = {} THEN Len(zs) ELSE CHOOSE i \in hits : \A j \in hits : i <= j
  IN {zs[i] : i \in 1..last}

updateDropZone(w, position) ==
  LET foundZone == FoundZone(w, position)
      s == w.st.session
      left(w0) == IF s.dropZone # NoZone
                  THEN public(w0, "dropzoneleave", s.element, s.dropZone, FALSE, "none")
                  ELSE w0
      retargeted(w1) == notify(w1, setDropTarget(w1.st, foundZone))
      entered(w2) == IF foundZone # NoZone
                     THEN public(w2, "dropzoneenter", s.element, foundZone, FALSE, "none")
                     ELSE w2
      scanned(w0) == IF s = NoSession THEN w0
                     ELSE IF foundZone = s.dropZone THEN w0
                     ELSE entered(retargeted(left(w0)))
  IN scanned([w EXCEPT !.cache.cached = @ \cup ZonesRead(w, position),
                       !.cache.dirty = @ \ ZonesRead(w, position)])

\* Snap._getItemAxis: the item's own axis (imperative option or
\* data-drag-axis), NoAxis when it has none.
NoAxis == "none"

getItemAxis(w, element) == w.snap.itemAxis[element]

\* getItemAxis(element) ?? options.axis ?? 'both'
ResolvedAxis(w, element) ==
  IF getItemAxis(w, element) # NoAxis THEN getItemAxis(w, element)
  ELSE w.snap.options.axis

\* The position DragEngine._onPointerMove hands to updatePosition: the axis
\* constraint, then the grid.
constrained(raw, origin, axis, grid) ==
  LET p1 == IF axis # "both" THEN applyAxisConstraint(raw, origin, axis) ELSE raw
  IN IF grid # NoGrid THEN applyGridSnap(p1, grid) ELSE p1

\* DragEngine._onPointerMove with the onDragMove callback before the hit test.
engine_onPointerMove_CallbackFirst(w, raw) ==
  LET s == w.st.session IN
  IF s = NoSession THEN w
  ELSE LET axis == ResolvedAxis(w, s.element)
           position == constrained(raw, s.origin, axis, w.snap.options.grid)
           called(w2) ==
             withEvent(public(w2, "dragmove", s.element, w2.st.session.dropZone, FALSE, "none"),
                       [position |-> w2.st.session.current, delta |-> w2.st.session.delta])
       IN updateDropZone(called(notify(w, updatePosition(w.st, position))), position)

engine_onPointerMove(w, raw) ==
  LET s == w.st.session IN
  IF s = NoSession THEN w
  ELSE LET axis == ResolvedAxis(w, s.element)
           position == constrained(raw, s.origin, axis, w.snap.options.grid)
           called(w2) ==
             withEvent(public(w2, "dragmove", s.element, w2.st.session.dropZone, FALSE, "none"),
                       [position |-> w2.st.session.current, delta |-> w2.st.session.delta])
       IN called(updateDropZone(notify(w, updatePosition(w.st, position)), position))

\* DragEngine._onPointerUp without the `if (finalSession.dropZone)` test.
engine_onPointerUp_AlwaysDrop(w) ==
  IF w.st.session = NoSession THEN w
  ELSE LET ended(w1, final) ==
             public(public(cleanup(w1, final.element),
                           "drop", final.element, final.dropZone, FALSE, "none"),
                    "dragend", final.element, NoZone, FALSE, "none")
           finish(w1) == ended(w1, w1.st.ret)
       IN finish(notify(w, endDrag(w.st)))

engine_onPointerUp(w) ==
  IF w.st.session = NoSession THEN w
  ELSE LET dropped(w2, final) ==
             IF final.dropZone # NoZone
             THEN public(w2, "drop", final.element, final.dropZone, FALSE, "none")
             ELSE w2
           ended(w1, final) ==
             IF final = NoSession THEN w1
             ELSE public(dropped(cleanup(w1, final.element), final),
                         "dragend", final.element, NoZone, FALSE, "none")
           finish(w1) == ended(w1, w1.st.ret)
       IN finish(notify(w, endDrag(w.st)))

engine_onPointerCancel(w) ==
  IF w.st.session = NoSession THEN w
  ELSE LET element == w.st.session.element
       IN public(cleanup(notify(w, cancelDrag(w.st)), element),
                 "dragend", element, NoZone, TRUE, "none")

\* ------------------------------------------------------------ RAFThrottle
throttle_queue(w, data) == [w EXCEPT !.sensor.pending = data, !.sensor.rafId = TRUE]

throttle_cancel(w) == [w EXCEPT !.sensor.rafId = FALSE, !.sensor.pending = NoPoint]

\* ------------------------------------------------------------ PointerSensor
\* EventEmitter.emit on the sensor: the engine's handlers, while subscribed.
\* `starts` counts the gesture-starts the sensor emitted for the press and
\* `log` lists the events it emitted for it.
sensor_emit(w, type) == [w EXCEPT !.sensor.log = Append(@, type)]

sensor_startDrag(w, reply) ==
  IF w.sensor.isDragging \/ w.sensor.activeElement = NoElement
     \/ w.sensor.startPosition = NoPoint
  THEN w
  ELSE LET w1 == sensor_emit([w EXCEPT !.sensor.isDragging = TRUE, !.sensor.starts = @ + 1],
                            "pointerdown")
       IN IF w1.engine.subscribed
          THEN engine_onPointerDown(w1, w1.sensor.activeElement, w1.sensor.startPosition, reply)
          ELSE w1

clearDelayTimer(w) == [w EXCEPT !.sensor.delayTimer = FALSE]

\* PointerSensor._processMove without the distance test.
processMove_NoThreshold(w, e, reply) ==
  IF w.sensor.startPosition = NoPoint \/ w.sensor.activeElement = NoElement THEN w
  ELSE LET moved(w1) ==
             IF w1.sensor.isDragging /\ w1.engine.subscribed
             THEN engine_onPointerMove(sensor_emit(w1, "pointermove"), e)
             ELSE IF w1.sensor.isDragging THEN sensor_emit(w1, "pointermove")
             ELSE w1
       IN moved(IF ~w.sensor.isDragging /\ w.sensor.options.distance > 0
                THEN sensor_startDrag(clearDelayTimer(w), reply) ELSE w)

\* PointerSensor._processMove without `this._clearDelayTimer()`.
processMove_KeepsTimer(w, e, reply) ==
  IF w.sensor.startPosition = NoPoint \/ w.sensor.activeElement = NoElement THEN w
  ELSE LET distance == w.sensor.options.distance
           dx == e.x - w.sensor.startPosition.x
           dy == e.y - w.sensor.startPosition.y
           below == ~w.sensor.isDragging /\ distance > 0
                    /\ dx * dx + dy * dy < distance * distance
           moved(w1) ==
             IF w1.sensor.isDragging /\ w1.engine.subscribed
             THEN engine_onPointerMove(sensor_emit(w1, "pointermove"), e)
             ELSE IF w1.sensor.isDragging THEN sensor_emit(w1, "pointermove")
             ELSE w1
       IN IF below THEN w
          ELSE moved(IF ~w.sensor.isDragging /\ distance > 0
                     THEN sensor_startDrag(w, reply) ELSE w)

processMove(w, e, reply) ==
  IF w.sensor.startPosition = NoPoint \/ w.sensor.activeElement = NoElement THEN w
  ELSE LET distance == w.sensor.options.distance
           dx == e.x - w.sensor.startPosition.x
           dy == e.y - w.sensor.startPosition.y
           below == ~w.sensor.isDragging /\ distance > 0
                    /\ dx * dx + dy * dy < distance * distance
           moved(w1) ==
             IF w1.sensor.isDragging /\ w1.engine.subscribed
             THEN engine_onPointerMove(sensor_emit(w1, "pointermove"), e)
             ELSE IF w1.sensor.isDragging THEN sensor_emit(w1, "pointermove")
             ELSE w1
       IN IF below THEN w
          ELSE moved(IF ~w.sensor.isDragging /\ distance > 0
                     THEN sensor_startDrag(clearDelayTimer(w), reply) ELSE w)

throttle_flush(w, reply) ==
  IF w.sensor.pending # NoPoint
  THEN processMove(throttle_cancel(w), w.sensor.pending, reply)
  ELSE w

throttle_process(w, reply) ==
  LET w1 == [w EXCEPT !.sensor.rafId = FALSE] IN
  IF w1.sensor.pending # NoPoint
  THEN processMove([w1 EXCEPT !.sensor.pending = NoPoint], w1.sensor.pending, reply)
  ELSE w1

sensor_cleanup(w) ==
  [throttle_cancel(clearDelayTimer(w)) EXCEPT
     !.sensor.startPosition = NoPoint,
     !.sensor.moveListeners = FALSE,
     !.sensor.activePointerId = NoPointer,
     !.sensor.activeElement = NoElement,
     !.sensor.isDragging = FALSE]

\* PointerSensor._onPointerDown starting the drag at once, whatever the delay.
sensor_onPointerDown_IgnoresDelay(w, element, position, reply) ==
  IF w.sensor.activePointerId # NoPointer THEN w
  ELSE LET w1 == [w EXCEPT !.sensor.activePointerId = PrimaryPointer,
                           !.sensor.activeElement = element,
                           !.sensor.startPosition = position,
                           !.sensor.isDragging = FALSE,
                           !.sensor.moveListeners = TRUE]
       IN IF w1.sensor.options.distance = 0
          THEN sensor_startDrag(w1, reply)
          ELSE w1

sensor_onPointerDown(w, element, position, reply) ==
  IF w.sensor.activePointerId # NoPointer THEN w
  ELSE LET w1 == [w EXCEPT !.sensor.activePointerId = PrimaryPointer,
                           !.sensor.activeElement = element,
                           !.sensor.startPosition = position,
                           !.sensor.isDragging = FALSE,
                           !.sensor.moveListeners = TRUE]
       IN IF w1.sensor.options.delay > 0
          THEN [w1 EXCEPT !.sensor.delayTimer = TRUE]
          ELSE IF w1.sensor.options.distance = 0
               THEN sensor_startDrag(w1, reply)
               ELSE w1

sensor_onPointerMove(w, e) == throttle_queue(w, e)

\* PointerSensor._onPointerUp without `this._moveThrottle.flush()`.
sensor_onPointerUp_NoFlush(w, reply) ==
  sensor_cleanup(IF w.sensor.isDragging /\ w.engine.subscribed
                 THEN engine_onPointerUp(sensor_emit(w, "pointerup"))
                 ELSE IF w.sensor.isDragging THEN sensor_emit(w, "pointerup")
                 ELSE w)

sensor_onPointerUp(w, reply) ==
  LET released(w1) ==
        IF w1.sensor.isDragging /\ w1.engine.subscribed
        THEN engine_onPointerUp(sensor_emit(w1, "pointerup"))
        ELSE IF w1.sensor.isDragging THEN sensor_emit(w1, "pointerup")
        ELSE w1
  IN sensor_cleanup(released(throttle_flush(w, reply)))

sensor_onPointerCancel(w) ==
  LET cancelled(w1) ==
        IF w1.sensor.isDragging /\ w1.engine.subscribed
        THEN engine_onPointerCancel(sensor_emit(w1, "pointercancel"))
        ELSE IF w1.sensor.isDragging THEN sensor_emit(w1, "pointercancel")
        ELSE w1
  IN sensor_cleanup(cancelled(throttle_cancel(w)))

sensor_onTimer(w, reply) == sensor_startDrag([w EXCEPT !.sensor.delayTimer = FALSE], reply)

sensor_attach(w) ==
  IF w.sensor.attached THEN w ELSE [w EXCEPT !.sensor.attached = TRUE]

sensor_detach(w) ==
  IF ~w.sensor.attached THEN w
  ELSE [sensor_cleanup(w) EXCEPT !.sensor.attached = FALSE]

sensor_destroy(w) == throttle_cancel(sensor_detach(w))

\* ------------------------------------------------------------ DragEngine
engine_enable(w) ==
  IF w.engine.enabled THEN w
  ELSE [sensor_attach(w) EXCEPT !.engine.enabled = TRUE]

engine_disable(w) ==
  IF ~w.engine.enabled THEN w
  ELSE LET w1 == sensor_detach(w)
           w2 == notify(w1, reset(w1.st))
       IN [removeGhost(w2) EXCEPT !.engine.enabled = FALSE]

engine_destroy(w) ==
  sensor_destroy([engine_disable(w) EXCEPT !.engine.subscribed = FALSE])

\* ------------------------------------------------------------ Snap
DestroyCalls(w, who) ==
  [i \in 1..Len(who) |->
     Callback(who[i], "destroy", NoElement, NoZone, FALSE, w.st.idCounter, "none")]

\* DropZoneManager.destroy: every zone's destroy() drops its cache entry.
dropZoneManager_destroy(w) ==
  [w EXCEPT !.cache.cached = @ \ w.snap.zones, !.snap.zones = {},
            !.snap.zoneHandlers = [z \in DOMAIN @ |-> {}]]

\* DropZoneManager.register: `handlers` are the callbacks among the options
\* (onEnter, onLeave); NoOptions stands for a call without options.
NoOptions == {"undefined"}

dropZoneManager_register(w, element, handlers) ==
  IF element \in w.snap.zones
  THEN IF handlers # NoOptions
       THEN [w EXCEPT !.snap.zoneHandlers[element] = @ \cup handlers]
       ELSE w
  ELSE [w EXCEPT !.snap.zones = @ \cup {element},
                 !.snap.zoneHandlers[element] = IF handlers # NoOptions THEN handlers ELSE {}]

\* DropZoneManager.unregister, with DropZone.destroy dropping the cache entry.
dropZoneManager_unregister(w, element) ==
  IF element \in w.snap.zones
  THEN [w EXCEPT !.cache.cached = @ \ {element},
                 !.snap.zones = @ \ {element},
                 !.snap.zoneHandlers[element] = {}]
  ELSE w

\* Snap.addDropZone: the Map keeps a key's first insertion position.
snap_addDropZone(w, element, handlers) ==
  dropZoneManager_register(
    [w EXCEPT !.snap.imperativeDropZones = IF InSeq(element, @) THEN @ ELSE Append(@, element)],
    element, handlers)

\* Snap.removeDropZone
snap_removeDropZone(w, element) ==
  dropZoneManager_unregister(
    [w EXCEPT !.snap.imperativeDropZones = SelectSeq(@, LAMBDA z : z # element)],
    element)

\* Snap._scanDeclarativeElements
scanDeclarativeElements(w) ==
  LET missing == {DeclaredZones[i] : i \in 1..Len(DeclaredZones)}
                 \ ({z \in Zones \cup {PlainZone} : InSeq(z, w.snap.imperativeDropZones)}
                    \cup w.snap.zones)
  IN [w EXCEPT !.snap.zones = @ \cup missing]

\* Snap.refresh
snap_refresh(w) == boundsCache_invalidateAll(scanDeclarativeElements(w))

\* Snap.destroy without `this._plugins = []` and `this._behaviors = []`.
snap_destroy_KeepsLists(w) ==
  LET w1 == engine_disable([w EXCEPT !.snap.destroyed = TRUE])
      w2 == [w1 EXCEPT !.snap.stateSubs = FALSE]
      w3 == [w2 EXCEPT !.heard = @ \o DestroyCalls(w2, w2.snap.plugins)]
      w4 == [w3 EXCEPT !.heard = @ \o DestroyCalls(w3, w3.snap.behaviors)]
      w5 == engine_destroy(w4)
      w6 == notify(w5, reset(w5.st))
      w7 == dropZoneManager_destroy(w6)
  IN [w7 EXCEPT !.snap.handlers = FALSE, !.snap.imperativeDropZones = <<>>]

snap_destroy(w) ==
  LET w1 == engine_disable([w EXCEPT !.snap.destroyed = TRUE])
      w2 == [w1 EXCEPT !.snap.stateSubs = FALSE]
      w3 == [w2 EXCEPT !.heard = @ \o DestroyCalls(w2, w2.snap.plugins),
                       !.snap.plugins = <<>>]
      w4 == [w3 EXCEPT !.heard = @ \o DestroyCalls(w3, w3.snap.behaviors),
                       !.snap.behaviors = <<>>]
      w5 == engine_destroy(w4)
      w6 == notify(w5, reset(w5.st))
      w7 == dropZoneManager_destroy(w6)
  IN [w7 EXCEPT !.snap.handlers = FALSE, !.snap.imperativeDropZones = <<>>]

\* ------------------------------------------------------------ RAFThrottle
\* A RAFThrottle<T> as a value: its two fields, the number of frame callbacks
\* it has outstanding with requestAnimationFrame, and what its callback got.
NoData == [none |-> TRUE]

NewThrottle == [rafId |-> FALSE, pending |-> NoData, frames |-> 0, delivered |-> <<>>]

\* RAFThrottle.queue requesting a frame on every call.
RAFThrottle_queue_AlwaysRequests(t, data) ==
  [t EXCEPT !.pending = data, !.rafId = TRUE, !.frames = @ + 1]

RAFThrottle_queue(t, data) ==
  LET t1 == [t EXCEPT !.pending = data]
  IN IF ~t1.rafId THEN [t1 EXCEPT !.rafId = TRUE, !.frames = @ + 1] ELSE t1

\* A value a callback answers by queueing another from inside the call has
\* the field `again` set; Echo is the value it queues.
Again(data) == "again" \in DOMAIN data /\ data.again

Echo(data) == [data EXCEPT !.again = FALSE]

\* this._callback(data)
RAFThrottle_callback(t, data) ==
  LET called(t1) == IF Again(data) THEN RAFThrottle_queue(t1, Echo(data)) ELSE t1
  IN called([t EXCEPT !.delivered = Append(@, data)])

RAFThrottle_cancel(t) ==
  LET t1 == IF t.rafId THEN [t EXCEPT !.frames = @ - 1, !.rafId = FALSE] ELSE t
  IN [t1 EXCEPT !.pending = NoData]

\* RAFThrottle.flush as it was before v0.2.1: cancel() first, then the
\* callback with what is left in _pending.
RAFThrottle_flush_CancelFirst(t) ==
  IF t.pending # NoData
  THEN RAFThrottle_callback(RAFThrottle_cancel(t), RAFThrottle_cancel(t).pending)
  ELSE t

RAFThrottle_flush(t) ==
  IF t.pending # NoData
  THEN LET data == t.pending
       IN RAFThrottle_callback(RAFThrottle_cancel(t), data)
  ELSE t

\* RAFThrottle._process, run by the browser for a requested frame.
RAFThrottle_process(t) ==
  LET t1 == [t EXCEPT !.rafId = FALSE, !.frames = @ - 1]
  IN IF t1.pending # NoData
     THEN RAFThrottle_callback([t1 EXCEPT !.pending = NoData], t1.pending)
     ELSE t1

\* No unit under test: the state of the variables a specification leaves alone.
NoProbe == [fn |-> "none"]

InitUnits ==
  /\ throttle = [t |-> NewThrottle, burst |-> <<>>, queued |-> 0, op |-> "new"]
  /\ probe = NoProbe

\* ------------------------------------------------------------ SpecEngine
World ==
  [st |-> DS(session, idCounter, emitted), sensor |-> sensor, engine |-> engine,
   snap |-> snap, cache |-> cache, heard |-> heard]

Commit(w, call) ==
  /\ session' = w.st.session
  /\ idCounter' = w.st.idCounter
  /\ emitted' = w.st.emitted
  /\ returned' = w.st.ret
  /\ lastCall' = call
  /\ sensor' = w.sensor
  /\ engine' = w.engine
  /\ snap' = w.snap
  /\ cache' = w.cache
  /\ heard' = w.heard
  /\ UNCHANGED unitVars

\* new Snap(container, options).use(plugin).addBehavior(behavior): the
\* constructor scans the declarative zones and enables the engine.
SensorInit(delay, distance) ==
  [attached |-> TRUE, activePointerId |-> NoPointer, activeElement |-> NoElement,
   startPosition |-> NoPoint, isDragging |-> FALSE, delayTimer |-> FALSE,
   moveListeners |-> FALSE, rafId |-> FALSE, pending |-> NoPoint,
   options |-> [delay |-> delay, distance |-> distance],
   presses |-> 0, moves |-> 0, starts |-> 0, log |-> <<>>]

\* The instance after construction, after use(plugin) and after
\* addDropZone(z) for each z of `added`.
InitSnapOf(delay, distance, axis, grid, itemAxis, plugin, added) ==
  /\ sensor = SensorInit(delay, distance)
  /\ engine = [enabled |-> TRUE, subscribed |-> TRUE, ghost |-> NoGhost,
               bodyGhosts |-> {}, classes |-> {}]
  /\ snap = [destroyed |-> FALSE, destroyCalls |-> 0, firstLeft |-> NoSnapshot,
             stateSubs |-> TRUE,
             plugins |-> <<IF plugin.name = "none" THEN "fileDrop" ELSE plugin.name>>,
             behaviors |-> <<"autoScroll">>,
             plugin |-> plugin,
             zones |-> {DeclaredZones[i] : i \in 1..Len(DeclaredZones)}
                       \cup {added[i] : i \in 1..Len(added)},
             imperativeDropZones |-> added, handlers |-> TRUE,
             zoneHandlers |-> [z \in Zones \cup {PlainZone} |-> {}],
             itemAxis |-> itemAxis,
             options |-> [axis |-> axis, grid |-> grid, ghostClass |-> "ghost"]]
  /\ cache = [cached |-> {}, dirty |-> {}, invalidateAll |-> FALSE]
  /\ heard = <<>>

\* No item declares an axis.
NoItemAxis == [element \in Elements |-> NoAxis]

\* An instance with a plugin that wraps no callback.
InitEngineOf(delay, distance, axis, grid, itemAxis) ==
  InitSnapOf(delay, distance, axis, grid, itemAxis, NoPlugin, <<>>)

\* The default axis ('both'), no grid, and the given thresholds.
InitEngineWith(delay, distance) ==
  InitEngineOf(delay, distance, "both", NoGrid, NoItemAxis)

\* The default options: no delay, no distance threshold.
InitEngine == InitEngineWith(0, 0)

\* Every combination of the delay and distance options.
InitGesture ==
  /\ InitState
  /\ InitUnits
  /\ \E delay \in {0, DelayMs}, distance \in {0, DistancePx} :
       InitEngineWith(delay, distance)

\* A press starts a new page of the callback history.
NewPage(w) ==
  IF w.sensor.activePointerId = NoPointer
  THEN [w EXCEPT !.heard = <<>>, !.st.emitted = <<>>, !.sensor.presses = @ + 1,
                 !.sensor.moves = 0, !.sensor.starts = 0, !.sensor.log = <<>>]
  ELSE w

Call(op) == [op |-> op, arg |-> NoZone]

\* A primary-button pointerdown on a draggable inside the container.
NativePointerDown ==
  /\ sensor.attached
  /\ sensor.presses < MaxPresses
  /\ \E element \in Elements, position \in Points, reply \in StartReplies :
       Commit(sensor_onPointerDown(NewPage(World), element, position, reply),
              [op |-> "pointerdown", arg |-> element])

NativePointerMove ==
  /\ sensor.moveListeners
  /\ sensor.moves < MaxMoves
  /\ \E position \in Points :
       Commit(sensor_onPointerMove([World EXCEPT !.sensor.moves = @ + 1], position),
              Call("pointermove"))

NativePointerUp ==
  /\ sensor.moveListeners
  /\ \E reply \in StartReplies : Commit(sensor_onPointerUp(World, reply), Call("pointerup"))

NativePointerCancel ==
  /\ sensor.moveListeners
  /\ Commit(sensor_onPointerCancel(World), Call("pointercancel"))

\* requestAnimationFrame fires the throttle's callback.
FrameTick ==
  /\ sensor.rafId
  /\ \E reply \in StartReplies : Commit(throttle_process(World, reply), Call("frame"))

\* The delay timer fires.
TimerFire ==
  /\ sensor.delayTimer
  /\ \E reply \in StartReplies : Commit(sensor_onTimer(World, reply), Call("timer"))

SnapEnable == Commit(engine_enable(World), Call("enable"))

SnapDisable == Commit(engine_disable(World), Call("disable"))

\* The components as a destroy() call leaves them (the press and move
\* counters, the log of the sensor's events and the destroy bookkeeping are
\* this model's, not the program's).
Components(w) ==
  [session |-> w.st.session,
   sensor |-> [w.sensor EXCEPT !.presses = 0, !.moves = 0, !.starts = 0, !.log = <<>>],
   engine |-> w.engine,
   snap |-> [w.snap EXCEPT !.destroyCalls = 0, !.firstLeft = NoSnapshot],
   cache |-> w.cache]

Destroyed(w) ==
  [w EXCEPT !.snap.destroyCalls = IF @ < 2 THEN @ + 1 ELSE @,
            !.snap.firstLeft = IF @ = NoSnapshot THEN Components(w) ELSE @]

SnapDestroy == Commit(Destroyed(snap_destroy(World)), Call("destroy"))

NextEngine ==
  \/ NativePointerDown
  \/ NativePointerMove
  \/ NativePointerUp
  \/ NativePointerCancel
  \/ FrameTick
  \/ TimerFire
  \/ SnapEnable
  \/ SnapDisable
  \/ SnapDestroy

SpecEngine == InitGesture /\ [][NextEngine]_vars

\* ------------------------------------------------------------ SpecZones
\* The options addDropZone is called with: none, or onEnter and onLeave.
ZoneHandlerSets == {NoOptions, {"onEnter", "onLeave"}}

\* The elements addDropZone and removeDropZone are called with: a
\* declarative zone and a plain element.
ManagedZones == {"z1", PlainZone}

SnapAddDropZone ==
  \E z \in ManagedZones, handlers \in ZoneHandlerSets :
    Commit(snap_addDropZone(World, z, handlers), [op |-> "addDropZone", arg |-> z])

SnapRemoveDropZone ==
  \E z \in ManagedZones :
    Commit(snap_removeDropZone(World, z), [op |-> "removeDropZone", arg |-> z])

SnapRefresh == Commit(snap_refresh(World), Call("refresh"))

InitZones == InitState /\ InitUnits /\ InitEngine

NextZones ==
  \/ NativePointerDown
  \/ NativePointerMove
  \/ FrameTick
  \/ NativePointerUp
  \/ SnapAddDropZone
  \/ SnapRemoveDropZone
  \/ SnapRefresh

SpecZones == InitZones /\ [][NextZones]_vars

\* ------------------------------------------------------------ SpecSortable
\* The default options, with snap.use(new Sortable()).
InitSortable ==
  /\ InitState /\ InitUnits
  /\ InitSnapOf(0, 0, "both", NoGrid, NoItemAxis, NewSortable, <<>>)

NextSortable ==
  \/ NativePointerDown
  \/ NativePointerMove
  \/ FrameTick
  \/ NativePointerUp
  \/ NativePointerCancel

SpecSortable == InitSortable /\ [][NextSortable]_vars

\* ------------------------------------------------------------ SpecKanban
\* The default options, with snap.use(new Kanban()) and
\* snap.addDropZone(plain): the plain element is a drop zone that is no
\* Kanban container, until it is removed.
InitKanban ==
  /\ InitState /\ InitUnits
  /\ InitSnapOf(0, 0, "both", NoGrid, NoItemAxis, NewKanban, <<PlainZone>>)

RemovePlainZone ==
  /\ PlainZone \in snap.zones
  /\ Commit(snap_removeDropZone(World, PlainZone), [op |-> "removeDropZone", arg |-> PlainZone])

NextKanban ==
  \/ NativePointerDown
  \/ NativePointerMove
  \/ FrameTick
  \/ NativePointerUp
  \/ NativePointerCancel
  \/ RemovePlainZone

SpecKanban == InitKanban /\ [][NextKanban]_vars

\* ------------------------------------------------------------ SpecMove
\* The axis option, the grid option and the axis item "a" declares.
Axes == {"x", "y", "both"}

Grids == {NoGrid, [x |-> 2, y |-> 2], [x |-> 3, y |-> 2]}

InitMove ==
  /\ InitState
  /\ InitUnits
  /\ \E axis \in Axes, grid \in Grids, own \in Axes \cup {NoAxis} :
       InitEngineOf(0, 0, axis, grid, [NoItemAxis EXCEPT !["a"] = own])

NextMove ==
  \/ NativePointerDown
  \/ NativePointerMove
  \/ FrameTick
  \/ NativePointerUp

SpecMove == InitMove /\ [][NextMove]_vars

\* ------------------------------------------------------------ Spec
Now == DS(session, idCounter, emitted)

Apply(st, call) ==
  /\ session' = st.session
  /\ idCounter' = st.idCounter
  /\ emitted' = st.emitted
  /\ returned' = st.ret
  /\ lastCall' = call
  /\ UNCHANGED unitVars

Room == Len(emitted) + 2 <= MaxEvents

CallStartDrag ==
  /\ Room /\ idCounter < MaxSessions
  /\ \E e \in Elements, p \in Points, d \in DataKinds :
       Apply(startDrag(Now, e, p, d), [op |-> "startDrag", arg |-> e])

CallUpdatePosition ==
  /\ Room
  /\ \E p \in Points : Apply(updatePosition(Now, p), [op |-> "updatePosition", arg |-> NoZone])

CallSetDropTarget ==
  /\ Room
  /\ \E z \in Zones \cup {NoZone} : Apply(setDropTarget(Now, z), [op |-> "setDropTarget", arg |-> z])

CallEndDrag == Room /\ Apply(endDrag(Now), [op |-> "endDrag", arg |-> NoZone])

CallCancelDrag == Room /\ Apply(cancelDrag(Now), [op |-> "cancelDrag", arg |-> NoZone])

CallReset == Room /\ Apply(reset(Now), [op |-> "reset", arg |-> NoZone])


Init == InitState /\ InitEngine /\ InitUnits

Next ==
  \/ CallStartDrag /\ UNCHANGED engineVars
  \/ CallUpdatePosition /\ UNCHANGED engineVars
  \/ CallSetDropTarget /\ UNCHANGED engineVars
  \/ CallEndDrag /\ UNCHANGED engineVars
  \/ CallCancelDrag /\ UNCHANGED engineVars
  \/ CallReset /\ UNCHANGED engineVars

Spec == Init /\ [][Next]_vars

\* ------------------------------------------------------------ SpecThrottle
\* The values handed to queue(): each call passes a fresh object (in the
\* sensor, the PointerEvent), told apart by the serial number of the call.
ThrottleData == {"a", "b"}

\* The throttle after a call, with the calls queued since the last delivery
\* or cancel (`burst`) kept for the record.
Throttled(t, burst, op) ==
  /\ throttle' = [t |-> t, burst |-> burst, queued |-> throttle.queued, op |-> op]
  /\ UNCHANGED <<stateVars, engineVars, probe>>

ThrottleQueue ==
  /\ throttle.queued < MaxQueued
  /\ \E v \in ThrottleData :
       LET data == [v |-> v, n |-> throttle.queued + 1]
       IN /\ throttle' = [t |-> RAFThrottle_queue(throttle.t, data),
                          burst |-> Append(throttle.burst, data),
                          queued |-> throttle.queued + 1, op |-> "queue"]
          /\ UNCHANGED <<stateVars, engineVars, probe>>

ThrottleFlush == Throttled(RAFThrottle_flush(throttle.t), <<>>, "flush")

ThrottleCancel == Throttled(RAFThrottle_cancel(throttle.t), <<>>, "cancel")

\* The browser runs a requested frame callback.
ThrottleTick ==
  /\ throttle.t.frames > 0
  /\ Throttled(RAFThrottle_process(throttle.t), <<>>, "tick")

InitThrottle == InitState /\ InitEngine /\ InitUnits

NextThrottle ==
  \/ ThrottleQueue
  \/ ThrottleFlush
  \/ ThrottleCancel
  \/ ThrottleTick

SpecThrottle == InitThrottle /\ [][NextThrottle]_vars

\* ------------------------------------------------------------ history
\* What a run of Spec can read off the notification history.
Count(type, n) ==
  Cardinality({i \in 1..Len(emitted) : emitted[i].type = type /\ emitted[i].id = n})

Types(es) == [i \in 1..Len(es) |-> es[i].type]

\* The notifications the step added.
NewEvents == SubSeq(emitted', Len(emitted) + 1, Len(emitted'))

Active == session # NoSession

\* ------------------------------------------------------------ claims

\* C1: a startDrag issued while a session is active emits exactly one dragend
\* for the prior session, in phase cancelled, and emits it before the new
\* session's dragstart; in the history no session starts while an earlier one
\* has not yet had its dragend, and the prior session has one dragend only.
C1_HandoffStep ==
  (lastCall'.op = "startDrag" /\ Active /\ emitted' # emitted) =>
     /\ Len(NewEvents) = 2
     /\ NewEvents[1].type = "dragend"
     /\ NewEvents[1].id = session.id
     /\ NewEvents[1].phase = "cancelled"
     /\ NewEvents[2].type = "dragstart"
     /\ NewEvents[2].id = session'.id
     /\ session'.id # session.id
     /\ session'.phase = "dragging"

C1_OneSessionAtATime ==
  \A i \in 1..Len(emitted) : emitted[i].type = "dragstart" =>
    \A j \in 1..(i - 1) : emitted[j].type = "dragstart" =>
      /\ emitted[j].id # emitted[i].id
      /\ Count("dragend", emitted[j].id) = 1
      /\ \E k \in (j + 1)..(i - 1) :
           emitted[k].type = "dragend" /\ emitted[k].id = emitted[j].id

C1_SingleActiveSession == [][C1_HandoffStep]_vars /\ []C1_OneSessionAtATime

\* C1's case: the last call was a startDrag that superseded a live session.
C1_Witness ==
  /\ lastCall.op = "startDrag"
  /\ Len(emitted) >= 3
  /\ emitted[Len(emitted)].type = "dragstart"
  /\ emitted[Len(emitted) - 1].type = "dragend"
  /\ emitted[Len(emitted) - 1].by = "cancelDrag"
  /\ emitted[Len(emitted) - 2].type # "dragend"

\* C2: every session gets exactly one dragend, emitted by the first endDrag,
\* cancelDrag or superseding startDrag after its start, and never a second
\* one; endDrag and cancelDrag with no active session return null and emit
\* nothing.
C2_DragendCount ==
  \A n \in 1..idCounter :
    Count("dragend", n) = IF Active /\ session.id = n THEN 0 ELSE 1

C2_TerminalStep ==
  /\ (Active /\ lastCall'.op \in {"endDrag", "cancelDrag", "reset", "startDrag"}
             /\ emitted' # emitted) =>
        /\ Cardinality({i \in 1..Len(NewEvents) :
              NewEvents[i].type = "dragend" /\ NewEvents[i].id = session.id}) = 1
        /\ (lastCall'.op # "startDrag" =>
              /\ session' = NoSession
              /\ returned'.id = session.id)
  /\ (~Active /\ lastCall'.op \in {"endDrag", "cancelDrag"}) =>
        /\ emitted' = emitted
        /\ returned' = NoSession
        /\ session' = NoSession

C2_ExactlyOneDragend == [][C2_TerminalStep]_vars /\ []C2_DragendCount

\* C2's case: a session was ended and endDrag or cancelDrag was then called
\* again with no active session.
C2_Witness ==
  /\ lastCall.op \in {"endDrag", "cancelDrag"}
  /\ ~Active
  /\ returned = NoSession
  /\ idCounter >= 2
  /\ Len(emitted) >= 4

\* C3: drop is emitted only inside endDrag, only with a non-null drop target,
\* once per session and right before that session's dragend; an endDrag on a
\* session with a null drop target emits no drop and one dragend whose session
\* reports a null target.
C3_DropInHistory ==
  \A i \in 1..Len(emitted) : emitted[i].type = "drop" =>
    /\ emitted[i].by = "endDrag"
    /\ emitted[i].dropZone # NoZone
    /\ Count("drop", emitted[i].id) = 1
    /\ i < Len(emitted)
    /\ emitted[i + 1].type = "dragend"
    /\ emitted[i + 1].id = emitted[i].id
    /\ emitted[i + 1].dropZone = emitted[i].dropZone

C3_EndDragStep ==
  (Active /\ lastCall'.op = "endDrag" /\ emitted' # emitted) =>
     IF session.dropZone # NoZone
     THEN /\ Types(NewEvents) = <<"drop", "dragend">>
          /\ NewEvents[1].dropZone = session.dropZone
          /\ NewEvents[1].id = session.id
     ELSE /\ Types(NewEvents) = <<"dragend">>
          /\ NewEvents[1].dropZone = NoZone
          /\ NewEvents[1].id = session.id

C3_DropOnlyOnTarget == [][C3_EndDragStep]_vars /\ []C3_DropInHistory

\* C3's case: one session ended over a target (drop, dragend) and another
\* ended by endDrag over no target.
C3_Witness ==
  /\ \E i \in 1..Len(emitted) : emitted[i].type = "drop"
  /\ \E i \in 1..Len(emitted) :
       /\ emitted[i].type = "dragend"
       /\ emitted[i].by = "endDrag"
       /\ emitted[i].dropZone = NoZone

\* C9: setDropTarget(z) on an active session with target p emits nothing and
\* changes nothing when z = p; otherwise it emits dropzoneleave first when p is
\* non-null and dropzoneenter after it when z is non-null, as separate
\* notifications of the same call.
C9_SetDropTargetStep ==
  (Active /\ lastCall'.op = "setDropTarget") =>
     LET p == session.dropZone
         z == lastCall'.arg
     IN IF z = p
        THEN emitted' = emitted /\ session' = session
        ELSE /\ Types(NewEvents) =
                  (IF p # NoZone THEN <<"dropzoneleave">> ELSE <<>>) \o
                  (IF z # NoZone THEN <<"dropzoneenter">> ELSE <<>>)
             /\ \A i \in 1..Len(NewEvents) : NewEvents[i].id = session.id
             /\ session'.dropZone = z

C9_LeaveBeforeEnter == [][C9_SetDropTargetStep]_vars

\* C9's case: the last call moved the target from one zone to another, so
\* the history ends with a leave followed by an enter.
C9_Witness ==
  /\ lastCall.op = "setDropTarget"
  /\ Len(emitted) >= 2
  /\ emitted[Len(emitted)].type = "dropzoneenter"
  /\ emitted[Len(emitted) - 1].type = "dropzoneleave"
  /\ emitted[Len(emitted) - 1].id = emitted[Len(emitted)].id

\* C10: within a session the number of dropzoneenter minus the number of
\* dropzoneleave is 0 or 1, and is 1 exactly when the drop target is non-null;
\* ending or cancelling the session adds no leave (enter and leave come from
\* setDropTarget alone, and none follows the session's dragend).
C10_EnterLeavePairing ==
  /\ \A n \in 1..idCounter :
       LET d == Count("dropzoneenter", n) - Count("dropzoneleave", n)
       IN /\ d \in {0, 1}
          /\ (Active /\ session.id = n) => (d = 1 <=> session.dropZone # NoZone)
  /\ \A i \in 1..Len(emitted) :
       /\ emitted[i].type \in {"dropzoneenter", "dropzoneleave"} =>
            emitted[i].by = "setDropTarget"
       /\ emitted[i].type = "dragend" =>
            \A k \in (i + 1)..Len(emitted) :
               emitted[k].id = emitted[i].id => emitted[k].type = "dragend"

\* C10's case: a session that entered, left and entered again was then ended
\* with its target still set, so its last enter has no matching leave.
C10_Witness ==
  /\ ~Active
  /\ lastCall.op \in {"endDrag", "cancelDrag"}
  /\ \E n \in 1..idCounter :
       /\ Count("dropzoneenter", n) = 2
       /\ Count("dropzoneleave", n) = 1
       /\ Count("dragend", n) = 1

\* ------------------------------------------------------------ gesture history
\* What a run of SpecEngine can read off the callbacks of the current press.
Public(h) == SelectSeq(h, LAMBDA c : c.who = "public")

PublicOf(h, what) == SelectSeq(h, LAMBDA c : c.who = "public" /\ c.what = what)

\* The callbacks the step delivered.
NewCalls == SubSeq(heard', Len(heard) + 1, Len(heard'))

\* The press in progress got its gesture-start, and the user's onDragStart
\* answered it with one of `replies`.
StartedWith(h, replies) ==
  \E i \in 1..Len(h) :
    h[i].who = "public" /\ h[i].what = "dragstart" /\ h[i].reply \in replies

GestureOver == sensor.activePointerId = NoPointer

\* C4: when onDragStart returns false or calls cancel(), the gesture-start
\* handler leaves the state machine idle and has created no ghost node and
\* added no dragging class, and nothing later in that gesture creates one.
C4_AbortStep ==
  StartedWith(heard', {"false", "cancel"}) =>
     /\ session' = NoSession
     /\ engine'.bodyGhosts \subseteq engine.bodyGhosts
     /\ engine'.classes \subseteq engine.classes

C4_AbortLeavesNothing == [][C4_AbortStep]_vars

\* The `return false` half of C4 alone.
C4_ReturnFalseStep ==
  StartedWith(heard', {"false"}) =>
     /\ session' = NoSession
     /\ engine'.bodyGhosts \subseteq engine.bodyGhosts
     /\ engine'.classes \subseteq engine.classes

C4_ReturnFalseLeavesNothing == [][C4_ReturnFalseStep]_vars

\* C5: on the public stream every dragstart is followed by exactly one
\* dragend for that gesture: never more dragends than dragstarts, and once the
\* gesture is over (released, cancelled, aborted, disabled or destroyed) the
\* dragstart has had its dragend.
C5_PublicDragendFollows ==
  LET starts == Len(PublicOf(heard, "dragstart"))
      ends == Len(PublicOf(heard, "dragend"))
  IN /\ ends <= starts
     /\ starts <= 1
     /\ GestureOver => ends = starts

\* C6: a destroy() issued while a drag is active detaches pointer input,
\* cancels the session with one dragend that reaches the behaviors before
\* their destroy(), leaves no delay timer and no frame callback scheduled, and
\* leaves no ghost node and no dragging class on any element.
C6_DestroyStep ==
  (lastCall'.op = "destroy" /\ session # NoSession) =>
     /\ ~sensor'.attached
     /\ ~sensor'.moveListeners
     /\ session' = NoSession
     /\ Len(NewEvents) = 1
     /\ NewEvents[1].type = "dragend"
     /\ NewEvents[1].phase = "cancelled"
     /\ NewEvents[1].id = session.id
     /\ \E i, j \in 1..Len(NewCalls) :
          /\ i < j
          /\ NewCalls[i].who = "autoScroll" /\ NewCalls[i].what = "onDragEnd"
          /\ NewCalls[j].who = "autoScroll" /\ NewCalls[j].what = "destroy"
     /\ ~sensor'.delayTimer
     /\ ~sensor'.rafId
     /\ sensor'.pending = NoPoint
     /\ engine'.ghost = NoGhost
     /\ session.id \notin engine'.bodyGhosts
     /\ engine'.classes = {}

C6_DestroyMidDrag == [][C6_DestroyStep]_vars

\* C6 without its last conjunct: everything but the dragging classes.
C6_DestroyStepButClasses ==
  (lastCall'.op = "destroy" /\ session # NoSession) =>
     /\ ~sensor'.attached
     /\ ~sensor'.moveListeners
     /\ session' = NoSession
     /\ Len(NewEvents) = 1
     /\ NewEvents[1].type = "dragend"
     /\ NewEvents[1].phase = "cancelled"
     /\ NewEvents[1].id = session.id
     /\ \E i, j \in 1..Len(NewCalls) :
          /\ i < j
          /\ NewCalls[i].who = "autoScroll" /\ NewCalls[i].what = "onDragEnd"
          /\ NewCalls[j].who = "autoScroll" /\ NewCalls[j].what = "destroy"
     /\ ~sensor'.delayTimer
     /\ ~sensor'.rafId
     /\ sensor'.pending = NoPoint
     /\ engine'.ghost = NoGhost
     /\ session.id \notin engine'.bodyGhosts

C6_DestroyMidDragButClasses == [][C6_DestroyStepButClasses]_vars

\* C7: a destroy() on an already destroyed instance emits no notification,
\* invokes no callback and leaves every component as the first destroy() left
\* it, whatever happened before the first call and between the two.
C7_SecondDestroyStep ==
  (lastCall'.op = "destroy" /\ snap.destroyed) =>
     /\ emitted' = emitted
     /\ heard' = heard
     /\ Components([st |-> DS(session', idCounter', emitted'), sensor |-> sensor',
                    engine |-> engine', snap |-> snap', cache |-> cache',
                    heard |-> heard']) = snap.firstLeft
     /\ snap'.firstLeft = snap.firstLeft

C7_DestroyIdempotent == [][C7_SecondDestroyStep]_vars

\* C7's case: destroy() was issued mid-drag (the dragged element still has
\* its classes) and then a second time.
C7_Witness ==
  /\ lastCall.op = "destroy"
  /\ snap.destroyCalls = 2
  /\ engine.classes # {}

\* C8: for a gesture whose start was not aborted, gesture-end invokes onDrop
\* exactly when the ended session had a drop target and before onDragEnd, and
\* onDragEnd once with cancelled = false; gesture-cancel invokes no onDrop and
\* onDragEnd once with cancelled = true; either way the gesture's ghost node
\* and the element's dragging classes are gone.
EndCalls(h) ==
  SelectSeq(h, LAMBDA c : c.who = "public" /\ c.what \in {"drop", "dragend"})

C8_TornDown(element) ==
  /\ session' = NoSession
  /\ engine'.ghost = NoGhost
  /\ idCounter' \notin engine'.bodyGhosts
  /\ DragClasses(World, element) \cap engine'.classes = {}

C8_GestureEndStep ==
  /\ (lastCall'.op = "pointerup" /\ StartedWith(heard', {"ok"})) =>
       LET final == emitted'[Len(emitted')]
           ends == EndCalls(NewCalls)
       IN /\ final.type = "dragend" /\ final.by = "endDrag"
          /\ IF final.dropZone # NoZone
             THEN /\ Len(ends) = 2
                  /\ ends[1].what = "drop" /\ ends[1].zone = final.dropZone
                  /\ ends[2].what = "dragend" /\ ~ends[2].cancelled
             ELSE /\ Len(ends) = 1
                  /\ ends[1].what = "dragend" /\ ~ends[1].cancelled
          /\ Len(PublicOf(heard', "dragend")) = 1
          /\ C8_TornDown(final.element)
  /\ (lastCall'.op = "pointercancel" /\ StartedWith(heard, {"ok"})) =>
       LET ends == EndCalls(NewCalls)
       IN /\ Len(ends) = 1
          /\ ends[1].what = "dragend" /\ ends[1].cancelled
          /\ Len(PublicOf(heard', "dragend")) = 1
          /\ Len(PublicOf(heard', "drop")) = 0
          /\ C8_TornDown(session.element)

C8_EndAndCancelCallbacks == [][C8_GestureEndStep]_vars

\* C8's case: a gesture that moved over a zone was released there: the
\* callbacks of the press end with drop, then dragend with cancelled = false.
C8_Witness ==
  /\ lastCall.op = "pointerup"
  /\ StartedWith(heard, {"ok"})
  /\ Len(EndCalls(heard)) = 2
  /\ EndCalls(heard)[1].what = "drop"
  /\ EndCalls(heard)[2].what = "dragend"
  /\ engine.ghost = NoGhost

\* ------------------------------------------------------------ throttle history
\* What the step handed to the throttle's callback.
NewDeliveries ==
  SubSeq(throttle'.t.delivered, Len(throttle.t.delivered) + 1, Len(throttle'.t.delivered))

\* C11: queue(a); queue(b); flush() with no frame tick in between hands the
\* callback b, once, and not a; when flush returns nothing is pending and no
\* frame callback is outstanding, so no later tick can deliver anything.
C11_FlushStep ==
  (throttle'.op = "flush" /\ Len(throttle.burst) >= 2) =>
     LET b == throttle.burst[Len(throttle.burst)]
     IN /\ NewDeliveries = <<b>>
        /\ \A i \in 1..(Len(throttle.burst) - 1) :
             \A j \in 1..Len(throttle'.t.delivered) :
               throttle'.t.delivered[j] # throttle.burst[i]
        /\ throttle'.t.pending = NoData
        /\ ~throttle'.t.rafId
        /\ throttle'.t.frames = 0

C11_FlushDeliversLatestOnce == [][C11_FlushStep]_vars

\* C11's case: queue(a), queue(b), flush(): the callback got b, the second
\* value queued, and nothing else.
C11_Witness ==
  /\ throttle.op = "flush"
  /\ throttle.queued = 2
  /\ Len(throttle.t.delivered) = 1
  /\ throttle.t.delivered[1] = [v |-> "b", n |-> 2]
  /\ throttle.t.frames = 0

\* C12: a burst of N >= 1 queue calls between two frame ticks has exactly one
\* frame callback outstanding, and the next tick hands the callback the N-th
\* value, once; no queued value is ever handed over twice.
C12_TickStep ==
  /\ throttle'.burst # <<>> => (throttle'.t.frames = 1 /\ throttle'.t.rafId)
  /\ (throttle'.op = "tick" /\ throttle.burst # <<>>) =>
       /\ NewDeliveries = <<throttle.burst[Len(throttle.burst)]>>
       /\ throttle'.t.frames = 0
  /\ \A i, j \in 1..Len(throttle'.t.delivered) :
       throttle'.t.delivered[i] = throttle'.t.delivered[j] => i = j

C12_BurstDeliversLatestOnce == [][C12_TickStep]_vars

\* C12's case: three queue calls, then the frame tick, which delivered the
\* third value.
C12_Witness ==
  /\ throttle.op = "tick"
  /\ throttle.queued = 3
  /\ Len(throttle.t.delivered) = 1
  /\ throttle.t.delivered[1].n = 3

\* ------------------------------------------------------------ DropZone.accepts
\* The accepted-type list a zone declares: z1 carries data-accepts="task",
\* z2 carries none.  NoAccepts stands for an absent list.
NoAccepts == {"none"}

DataAccepts(zone) == IF zone = "z1" THEN {"task"} ELSE NoAccepts

\* The options a zone was registered with: Snap._scanDeclarativeElements
\* registers the declarative zones without options.
ZoneOptions(zone) == [accepts |-> NoAccepts]

\* The payload as a DataTransfer: one entry, the key 'type'.
hasType(data, type) == type = "type"

getData(data, key) == IF key = "type" THEN data ELSE "undefined"

DropZone_accepts(zone, data) ==
  LET accepts == ZoneOptions(zone).accepts
      listed(types) == \E type \in types : hasType(data, type) \/ getData(data, "type") = type
  IN IF accepts = NoAccepts THEN TRUE
     ELSE IF listed(accepts) THEN TRUE
     ELSE IF DataAccepts(zone) # NoAccepts /\ listed(DataAccepts(zone)) THEN TRUE
     ELSE FALSE

\* The zone turns the payload down: by DropZone.accepts, or by a declared
\* data-accepts list that does not name the payload's type.
Rejects(zone, data) ==
  \/ ~DropZone_accepts(zone, data)
  \/ DataAccepts(zone) # NoAccepts /\ data \notin DataAccepts(zone)

\* C13: the session's drop target is always an accepting zone: a zone that
\* rejects the session's payload is never the session's drop target and
\* never gets a dropzoneenter or a drop.
C13_TargetAccepts ==
  /\ (session # NoSession /\ session.dropZone # NoZone) =>
        ~Rejects(session.dropZone, session.data)
  /\ \A i \in 1..Len(emitted) :
       emitted[i].type \in {"dropzoneenter", "drop"} =>
         ~Rejects(emitted[i].dropZone, extractDataAttributes(emitted[i].element))

\* ------------------------------------------------------------ SpecInsertion
\* Candidate items laid out without gaps or overlap: a column (same left,
\* tops stacked) or a row (same top, lefts stacked), of the given extents.
Extents == {2, 4}

RECURSIVE Sum(_)
Sum(seq) == IF seq = <<>> THEN 0 ELSE seq[1] + Sum(Tail(seq))

Column(sizes) ==
  [i \in 1..Len(sizes) |->
     [left |-> 4, width |-> 4, top |-> Sum(SubSeq(sizes, 1, i - 1)), height |-> sizes[i]]]

Row(sizes) ==
  [i \in 1..Len(sizes) |->
     [top |-> 4, height |-> 4, left |-> Sum(SubSeq(sizes, 1, i - 1)), width |-> sizes[i]]]

\* Three siblings with vertical centers 10, 50 and 90.
ExampleColumn ==
  [i \in 1..3 |-> [left |-> 0, width |-> 100, top |-> 40 * (i - 1), height |-> 20]]

ExampleCursors == {[x |-> 50, y |-> 5], [x |-> 50, y |-> 45], [x |-> 50, y |-> 95]}

SizeLists == UNION {[1..n -> Extents] : n \in 0..MaxItems}

Layouts ==
  {[kind |-> "column", items |-> Column(sizes)] : sizes \in SizeLists}
  \cup {[kind |-> "row", items |-> Row(sizes)] : sizes \in SizeLists}

\* No index yet (the sentinel Sortable keeps in _currentIndex).
NotRun == -1

InitInsertion ==
  /\ InitState /\ InitEngine
  /\ throttle = [t |-> NewThrottle, burst |-> <<>>, queued |-> 0, op |-> "new"]
  /\ \/ \E layout \in Layouts, x \in 0..MaxCursor, y \in 0..MaxCursor,
            originalIndex \in 0..MaxItems :
            probe = [fn |-> "insertion", kind |-> layout.kind, items |-> layout.items,
                     x |-> x, y |-> y, originalIndex |-> originalIndex,
                     dropZone |-> NotRun, kanban |-> NotRun, sortable |-> NotRun]
     \/ \E c \in ExampleCursors :
            probe = [fn |-> "insertion", kind |-> "column", items |-> ExampleColumn,
                     x |-> c.x, y |-> c.y, originalIndex |-> 0,
                     dropZone |-> NotRun, kanban |-> NotRun, sortable |-> NotRun]

RunDropZone ==
  /\ probe.dropZone = NotRun
  /\ probe' = [probe EXCEPT !.dropZone = DropZone_getInsertionIndex(probe.items, probe.x, probe.y)]
  /\ UNCHANGED <<stateVars, engineVars, throttle>>

RunKanban ==
  /\ probe.kanban = NotRun
  /\ probe' = [probe EXCEPT !.kanban = Kanban_calculateInsertionIndex(probe.items, probe.x, probe.y)]
  /\ UNCHANGED <<stateVars, engineVars, throttle>>

RunSortable ==
  /\ probe.sortable = NotRun
  /\ probe' = [probe EXCEPT !.sortable =
                  Sortable_onDragMove(probe.items, probe.x, probe.y, probe.originalIndex)]
  /\ UNCHANGED <<stateVars, engineVars, throttle>>

NextInsertion ==
  \/ RunDropZone
  \/ RunKanban
  \/ RunSortable

SpecInsertion == InitInsertion /\ [][NextInsertion]_vars

\* ------------------------------------------------------------ insertion claims
\* The cursor of the probe lies on no candidate's y-center.
OffCenters ==
  \A i \in 1..Len(probe.items) :
    2 * probe.y # 2 * probe.items[i].top + probe.items[i].height

\* The number of candidates whose y-center lies above the cursor: i for a
\* cursor between c(i-1) and c(i), 0 above c0, N below c(N-1).
CentersAbove ==
  Cardinality({i \in 1..Len(probe.items) :
                 2 * probe.items[i].top + probe.items[i].height < 2 * probe.y})

\* C14: on a vertical list of N candidates with strictly increasing
\* y-centers, DropZone.getInsertionIndex and Kanban._calculateInsertionIndex
\* return i for a cursor strictly between c(i-1) and c(i), 0 above c0 and N
\* below c(N-1).
C14_ColumnIndex ==
  (probe.fn = "insertion" /\ probe.kind = "column" /\ Len(probe.items) >= 1 /\ OffCenters) =>
     /\ probe.dropZone # NotRun => probe.dropZone = CentersAbove
     /\ probe.kanban # NotRun => probe.kanban = CentersAbove

\* C14 for lists of two or more candidates.
C14_ColumnIndexOfTwoOrMore ==
  (probe.fn = "insertion" /\ probe.kind = "column" /\ Len(probe.items) >= 2 /\ OffCenters) =>
     /\ probe.dropZone # NotRun => probe.dropZone = CentersAbove
     /\ probe.kanban # NotRun => probe.kanban = CentersAbove

Moved == session # NoSession /\ Len(PublicOf(heard, "dragmove")) > 0

\* The axis the dragged item's moves are constrained to.
SessionAxis == ResolvedAxis(World, session.element)

\* C16 as stated: when the dragged item's axis resolves to 'x', after every
\* processed move current.y equals origin.y and delta.y is 0; for 'y',
\* current.x equals origin.x; with or without a grid.
C16_AxisLocksCoordinate ==
  Moved =>
    /\ SessionAxis = "x" => (session.current.y = session.origin.y /\ session.delta.y = 0)
    /\ SessionAxis = "y" => (session.current.x = session.origin.x /\ session.delta.x = 0)

\* C16, amended: without a grid the locked coordinate equals the origin's;
\* with a grid it is the origin's coordinate snapped to the grid, the same
\* for every raw pointer position.
C16_AxisLocksCoordinateUpToGrid ==
  Moved =>
    LET grid == snap.options.grid
        lockedX == IF grid = NoGrid THEN session.origin.x
                   ELSE Round(session.origin.x, grid.x) * grid.x
        lockedY == IF grid = NoGrid THEN session.origin.y
                   ELSE Round(session.origin.y, grid.y) * grid.y
    IN /\ SessionAxis = "x" =>
            /\ session.current.y = lockedY
            /\ session.delta.y = lockedY - session.origin.y
       /\ SessionAxis = "y" =>
            /\ session.current.x = lockedX
            /\ session.delta.x = lockedX - session.origin.x

\* C16's case: item "a" declares axis 'x' under a global axis 'y' and a grid;
\* pressed at (2,1), it was moved to another column and its row is the
\* origin's, snapped.
C16_Witness ==
  /\ Moved
  /\ session.element = "a"
  /\ snap.itemAxis["a"] = "x"
  /\ snap.options.axis = "y"
  /\ snap.options.grid # NoGrid
  /\ session.origin = [x |-> 2, y |-> 1]
  /\ session.current.x # session.origin.x
  /\ session.current.y = 2

\* ------------------------------------------------------------ SpecGrid
\* SnapGrid.snap(x, y) with the behavior's own cell sizes.
SnapGrid_snap(options, x, y) ==
  [x |-> Round(x, options.x) * options.x, y |-> Round(y, options.y) * options.y]

RawCoords == (0 - 2)..MaxCoord

Cells == {2, 3, 5}

Origins == {[x |-> 0, y |-> 0], [x |-> 1, y |-> 3]}

\* Origin (0,0), cell (20,20), raw move to (27,34).
ExampleMove ==
  [raw |-> [x |-> 27, y |-> 34], origin |-> [x |-> 0, y |-> 0],
   axis |-> "both", grid |-> [x |-> 20, y |-> 20]]

GridProbe(raw, origin, axis, grid) ==
  [fn |-> "grid", raw |-> raw, origin |-> origin, axis |-> axis, grid |-> grid,
   position |-> NoPoint, again |-> NoPoint, behavior |-> NoPoint]

InitGrid ==
  /\ InitState /\ InitEngine
  /\ throttle = [t |-> NewThrottle, burst |-> <<>>, queued |-> 0, op |-> "new"]
  /\ \/ \E x \in RawCoords, y \in RawCoords, origin \in Origins, axis \in Axes,
            cx \in Cells, cy \in Cells :
            probe = GridProbe([x |-> x, y |-> y], origin, axis, [x |-> cx, y |-> cy])
     \/ probe = GridProbe(ExampleMove.raw, ExampleMove.origin, ExampleMove.axis,
                          ExampleMove.grid)

\* DragEngine._onPointerMove up to its updatePosition(position) call.
RunConstrained ==
  /\ probe.position = NoPoint
  /\ probe' = [probe EXCEPT !.position =
                  constrained(probe.raw, probe.origin, probe.axis, probe.grid)]
  /\ UNCHANGED <<stateVars, engineVars, throttle>>

\* The grid applied to the point it produced.
RunSnapAgain ==
  /\ probe.position # NoPoint
  /\ probe.again = NoPoint
  /\ probe' = [probe EXCEPT !.again = applyGridSnap(probe.position, probe.grid)]
  /\ UNCHANGED <<stateVars, engineVars, throttle>>

RunSnapGrid ==
  /\ probe.behavior = NoPoint
  /\ probe' = [probe EXCEPT !.behavior = SnapGrid_snap(probe.grid, probe.raw.x, probe.raw.y)]
  /\ UNCHANGED <<stateVars, engineVars, throttle>>

NextGrid ==
  \/ RunConstrained
  \/ RunSnapAgain
  \/ RunSnapGrid

SpecGrid == InitGrid /\ [][NextGrid]_vars

\* r is the multiple of cell nearest to v, the upper one on a tie.
NearestMultiple(r, v, cell) ==
  /\ r % cell = 0
  /\ 2 * r - cell <= 2 * v
  /\ 2 * v < 2 * r + cell

\* The coordinates of the probe's raw point after the axis constraint.
AxisConstrainedX == IF probe.axis = "y" THEN probe.origin.x ELSE probe.raw.x

AxisConstrainedY == IF probe.axis = "x" THEN probe.origin.y ELSE probe.raw.y

\* C17: with a grid, the position handed to updatePosition is, per axis, the
\* multiple of the cell size nearest to the axis-constrained coordinate
\* (round(v / cell) * cell); origin (0,0), cell (20,20), raw (27,34) gives
\* (20,40); snapping a snapped point returns it; SnapGrid.snap rounds the
\* raw point the same way.
C17_GridSnap ==
  probe.fn = "grid" =>
    /\ probe.position # NoPoint =>
         /\ NearestMultiple(probe.position.x, AxisConstrainedX, probe.grid.x)
         /\ NearestMultiple(probe.position.y, AxisConstrainedY, probe.grid.y)
         /\ (probe.raw = ExampleMove.raw /\ probe.grid = ExampleMove.grid) =>
               probe.position = [x |-> 20, y |-> 40]
    /\ probe.again # NoPoint => probe.again = probe.position
    /\ probe.behavior # NoPoint =>
         /\ NearestMultiple(probe.behavior.x, probe.raw.x, probe.grid.x)
         /\ NearestMultiple(probe.behavior.y, probe.raw.y, probe.grid.y)

\* C17's case: the scenario's move, constrained to (20,40) and snapped again.
C17_Witness ==
  /\ probe.fn = "grid"
  /\ probe.raw = [x |-> 27, y |-> 34]
  /\ probe.grid = [x |-> 20, y |-> 20]
  /\ probe.position = [x |-> 20, y |-> 40]
  /\ probe.again = [x |-> 20, y |-> 40]

\* ------------------------------------------------------------ threshold claims
\* The step is a press the sensor starts tracking.
PressStep == lastCall'.op = "pointerdown" /\ sensor.activePointerId = NoPointer

\* The step hands the coalesced move `sensor.pending` to _processMove (at a
\* frame tick, or flushed by the release).
ProcessStep ==
  /\ lastCall'.op \in {"frame", "pointerup"}
  /\ sensor.pending # NoPoint
  /\ sensor.startPosition # NoPoint

\* The squared distance of the processed move from the press point.
Dist2 ==
  (sensor.pending.x - sensor.startPosition.x) * (sensor.pending.x - sensor.startPosition.x)
  + (sensor.pending.y - sensor.startPosition.y) * (sensor.pending.y - sensor.startPosition.y)

Threshold2 == sensor.options.distance * sensor.options.distance

\* C18: with delay 0 and distance 0 the press itself emits gesture-start;
\* with a delay and distance 0 the press emits nothing, the timer's expiry
\* emits it, and a release or cancel before the expiry clears the timer, so
\* that the press emits nothing then or later.
C18_DelayStep ==
  /\ (sensor.options.delay = 0 /\ sensor.options.distance = 0 /\ PressStep) =>
        (sensor'.starts = 1 /\ sensor'.isDragging)
  /\ (sensor.options.delay > 0 /\ sensor.options.distance = 0) =>
        /\ PressStep => (sensor'.starts = 0 /\ ~sensor'.isDragging /\ sensor'.delayTimer)
        /\ (lastCall'.op = "timer" /\ sensor.delayTimer) =>
              (sensor.starts = 0 /\ sensor'.starts = 1 /\ sensor'.isDragging)
        /\ (lastCall'.op \in {"pointerup", "pointercancel"} /\ sensor.starts = 0) =>
              (sensor'.starts = 0 /\ ~sensor'.delayTimer /\ heard' = heard)
        /\ sensor'.delayTimer => sensor'.activePointerId # NoPointer
        /\ (sensor'.starts # sensor.starts /\ ~PressStep) => lastCall'.op = "timer"

C18_DelayGatesStart == [][C18_DelayStep]_vars

\* C18's case: a press under a delay, then the timer's expiry, which emitted
\* the press's one gesture-start.
C18_Witness ==
  /\ sensor.options.delay > 0
  /\ sensor.options.distance = 0
  /\ lastCall.op = "timer"
  /\ sensor.starts = 1
  /\ sensor.isDragging

\* C19 as stated: with a distance d > 0 and no delay, the first processed
\* move farther than d from the press point emits gesture-start, and a
\* processed move at distance d or less emits nothing.
C19_StrictStep ==
  (sensor.options.delay = 0 /\ sensor.options.distance > 0 /\ ProcessStep
   /\ sensor.starts = 0) =>
     IF Dist2 > Threshold2 THEN sensor'.starts = 1
     ELSE sensor'.starts = 0 /\ heard' = heard /\ emitted' = emitted

C19_StartsBeyondDistance == [][C19_StrictStep]_vars

\* C19, amended: the first processed move at distance d or more emits
\* gesture-start; a processed move at less than d emits nothing; the press
\* itself emits nothing.
C19_ReachedStep ==
  (sensor.options.delay = 0 /\ sensor.options.distance > 0) =>
     /\ PressStep => sensor'.starts = 0
     /\ (ProcessStep /\ sensor.starts = 0) =>
          IF Dist2 >= Threshold2 THEN sensor'.starts = 1
          ELSE sensor'.starts = 0 /\ heard' = heard /\ emitted' = emitted
     /\ (sensor'.starts # sensor.starts /\ ~PressStep) => ProcessStep

C19_StartsAtDistance == [][C19_ReachedStep]_vars

\* C19's case: a press at (2,1) and a processed move to (5,1), at exactly
\* the configured distance, which started the drag.
C19_Witness ==
  /\ sensor.options.delay = 0
  /\ sensor.options.distance = DistancePx
  /\ lastCall.op = "frame"
  /\ sensor.starts = 1
  /\ sensor.startPosition = [x |-> 2, y |-> 1]
  /\ session # NoSession
  /\ session.current = [x |-> 5, y |-> 1]

\* C20: with a delay and a distance, a press emits at most one gesture-start,
\* by the timer's expiry or by a processed move that crosses the distance,
\* whichever comes first; once the drag has started no timer is pending, and
\* neither the expiry nor a later crossing emits again.
C20_ComposeStep ==
  (sensor.options.delay > 0 /\ sensor.options.distance > 0) =>
     /\ sensor'.starts <= 1
     /\ PressStep => (sensor'.starts = 0 /\ sensor'.delayTimer)
     /\ (lastCall'.op = "timer" /\ sensor.delayTimer) =>
          (sensor.starts = 0 /\ sensor'.starts = 1)
     /\ (ProcessStep /\ sensor.starts = 0 /\ Dist2 > Threshold2) => sensor'.starts = 1
     /\ (ProcessStep /\ sensor.starts = 0 /\ Dist2 < Threshold2) =>
          (sensor'.starts = 0 /\ heard' = heard)
     /\ (sensor'.starts # sensor.starts /\ ~PressStep) =>
          (lastCall'.op = "timer" \/ ProcessStep)
     /\ sensor'.isDragging => ~sensor'.delayTimer
     /\ sensor'.delayTimer => (sensor'.starts = 0 /\ sensor'.activePointerId # NoPointer)

C20_OneStartPerPress == [][C20_ComposeStep]_vars

\* C20's case: under both thresholds the drag has started, once; no timer is
\* pending, and two moves have been processed since, the second of them at a
\* frame tick, without a second gesture-start.
C20_Witness ==
  /\ sensor.options.delay > 0
  /\ sensor.options.distance > 0
  /\ lastCall.op = "frame"
  /\ sensor.starts = 1
  /\ sensor.isDragging
  /\ ~sensor.delayTimer
  /\ Len(PublicOf(heard, "dragstart")) = 1
  /\ Len(PublicOf(heard, "dragmove")) = 2

\* ------------------------------------------------------------ drop zone claims
\* The zone has been unregistered (or never registered) and stays so over
\* the step.
Unregistered(z) == z \notin snap.zones /\ z \notin snap'.zones

\* The step makes z the session's drop target.
BecomesTarget(z) ==
  /\ session' # NoSession
  /\ session'.dropZone = z
  /\ (session = NoSession \/ session.dropZone # z)

\* The step tells the caller that z was entered or dropped on.
Receives(z, whats) ==
  \E i \in 1..Len(NewCalls) :
    NewCalls[i].who = "public" /\ NewCalls[i].what \in whats /\ NewCalls[i].zone = z

\* C21: after Snap.removeDropZone(z) has returned, and until z is registered
\* again, no processed move makes z the session's drop target and z
\* receives no dropzoneenter and no drop, whether z had been registered by
\* addDropZone or by the declarative scan.
C21_RemovedStep ==
  \A z \in Zones \cup {PlainZone} :
    Unregistered(z) => ~BecomesTarget(z) /\ ~Receives(z, {"dropzoneenter", "drop"})

C21_RemovedZoneIsNoTarget == [][C21_RemovedStep]_vars

\* ------------------------------------------------------------ DropZoneManager
\* The manager by itself: `zones` is the Map element -> DropZone in insertion
\* order, each DropZone an object `id` with its options; `cached` are the
\* elements the bounds cache holds a rectangle for; `made` counts the
\* DropZone objects constructed and `ret` is the object the last call
\* returned (0: none).
Nodes == {"n1", "n2"}

\* A DropZoneOptions object: "unset" marks a key the object does not have. A
\* call without options acts as one with an object without keys.
OptionValues == [accepts : {"unset", "A", "B"}, onEnter : {"unset", "f"}]

EmptyOptions == [accepts |-> "unset", onEnter |-> "unset"]

\* Object.assign(target, source)
Object_assign(target, source) ==
  [k \in DOMAIN target |-> IF source[k] # "unset" THEN source[k] ELSE target[k]]

NewManager == [zones |-> <<>>, cached |-> {}, made |-> 0, ret |-> 0]

\* Map.get: the index of the element's entry, 0 without one.
Map_index(zones, element) ==
  IF \E i \in 1..Len(zones) : zones[i].element = element
  THEN CHOOSE i \in 1..Len(zones) : zones[i].element = element
  ELSE 0

\* DropZoneManager.register constructing a DropZone on every call.
DropZoneManager_register_AlwaysNew(m, element, options) ==
  [m EXCEPT !.zones = Append(@, [element |-> element, id |-> m.made + 1,
                                 options |-> Object_assign(EmptyOptions, options)]),
            !.made = @ + 1,
            !.ret = m.made + 1]

DropZoneManager_register(m, element, options) ==
  LET i == Map_index(m.zones, element)
  IN IF i # 0
     THEN [m EXCEPT !.zones[i].options = Object_assign(@, options),
                    !.ret = m.zones[i].id]
     ELSE [m EXCEPT !.zones = Append(@, [element |-> element, id |-> m.made + 1,
                                         options |-> Object_assign(EmptyOptions, options)]),
                    !.made = @ + 1,
                    !.ret = m.made + 1]

\* DropZoneManager.unregister, with DropZone.destroy.
DropZoneManager_unregister(m, element) ==
  IF Map_index(m.zones, element) # 0
  THEN [m EXCEPT !.cached = @ \ {element},
                 !.zones = SelectSeq(@, LAMBDA z : z.element # element),
                 !.ret = 0]
  ELSE [m EXCEPT !.ret = 0]

\* DropZone.containsPoint of a registered zone: boundsCache.get caches the
\* element's rectangle.
DropZone_containsPoint(m, element) == [m EXCEPT !.cached = @ \cup {element}, !.ret = 0]

\* ------------------------------------------------------------ SpecRegistry
InitRegistry ==
  /\ InitState /\ InitEngine
  /\ throttle = [t |-> NewThrottle, burst |-> 0, queued |-> 0, op |-> "new"]
  /\ probe = [fn |-> "registry", m |-> NewManager, op |-> "new", element |-> "none",
              options |-> EmptyOptions, calls |-> 0]

RegistryCall(m, op, element, options) ==
  /\ probe.fn = "registry"
  /\ probe.calls < MaxRegistryCalls
  /\ probe' = [fn |-> "registry", m |-> m, op |-> op, element |-> element,
               options |-> options, calls |-> probe.calls + 1]
  /\ UNCHANGED <<stateVars, engineVars, throttle>>

RunRegister ==
  \E n \in Nodes, o \in OptionValues :
    RegistryCall(DropZoneManager_register(probe.m, n, o), "register", n, o)

RunUnregister ==
  \E n \in Nodes :
    RegistryCall(DropZoneManager_unregister(probe.m, n), "unregister", n, EmptyOptions)

RunContainsPoint ==
  \E i \in 1..Len(probe.m.zones) :
    RegistryCall(DropZone_containsPoint(probe.m, probe.m.zones[i].element),
                 "containsPoint", probe.m.zones[i].element, EmptyOptions)

NextRegistry == RunRegister \/ RunUnregister \/ RunContainsPoint

SpecRegistry == InitRegistry /\ [][NextRegistry]_vars

\* The records the manager holds for the element.
Records(m, element) == SelectSeq(m.zones, LAMBDA z : z.element = element)

\* C22: register(n, o) on a registered node n keeps exactly one record for
\* n, returns the DropZone it already had and leaves its options holding
\* every key of o with o's value (the other keys as they were);
\* unregister(n) removes the record and n's entry of the bounds cache in the
\* same call; unregister of an unknown node changes neither the records nor
\* the cache.
C22_RegistryStep ==
  LET n == probe'.element
      o == probe'.options
      before == Records(probe.m, n)
      after == Records(probe'.m, n)
  IN /\ (probe'.op = "register" /\ Len(before) = 1) =>
          /\ Len(after) = 1
          /\ probe'.m.ret = before[1].id
          /\ after[1].id = before[1].id
          /\ after[1].options = Object_assign(before[1].options, o)
          /\ \A k \in DOMAIN o : o[k] # "unset" => after[1].options[k] = o[k]
          /\ Len(probe'.m.zones) = Len(probe.m.zones)
     /\ (probe'.op = "unregister" /\ Len(before) = 1) =>
          /\ Len(after) = 0
          /\ n \notin probe'.m.cached
     /\ (probe'.op = "unregister" /\ Len(before) = 0) =>
          /\ probe'.m.zones = probe.m.zones
          /\ probe'.m.cached = probe.m.cached

C22_RegistrationIdempotent == [][C22_RegistryStep]_vars

\* n1 was registered with accepts A, n2 registered, n1 hit-tested and then
\* registered again with onEnter: it is still the first DropZone made, with
\* both options.
C22_Witness ==
  /\ probe.fn = "registry"
  /\ probe.op = "register"
  /\ probe.element = "n1"
  /\ probe.options = [accepts |-> "unset", onEnter |-> "f"]
  /\ probe.m.made = 2
  /\ probe.m.cached = {"n1"}
  /\ probe.m.ret = 1
  /\ Len(Records(probe.m, "n1")) = 1
  /\ Records(probe.m, "n1")[1].options = [accepts |-> "A", onEnter |-> "f"]

\* ------------------------------------------------------------ zone callbacks
\* The step invokes the zone's own callback `handler` (an option given to
\* addDropZone).
ZoneCalled(z, handler) ==
  \E i \in 1..Len(NewCalls) :
    NewCalls[i].who = "zone" /\ NewCalls[i].what = handler /\ NewCalls[i].zone = z

\* C23: for a zone registered with addDropZone(z, {onEnter, onLeave}), every
\* step that notifies dropzoneenter for z invokes z's onEnter, and every
\* step that notifies dropzoneleave for z invokes z's onLeave.
C23_ZoneCallbackStep ==
  \A z \in Zones \cup {PlainZone} :
    /\ ("onEnter" \in snap.zoneHandlers[z] /\ Receives(z, {"dropzoneenter"}))
         => ZoneCalled(z, "onEnter")
    /\ ("onLeave" \in snap.zoneHandlers[z] /\ Receives(z, {"dropzoneleave"}))
         => ZoneCalled(z, "onLeave")

C23_ZoneCallbacksInStep == [][C23_ZoneCallbackStep]_vars

\* ------------------------------------------------------------ plugin claims
\* The placeholder nodes attached to the page in the next state.
PlaceholdersAttached ==
  {PlaceholderNodes[i] : i \in 1..Len(PlaceholderNodes)} \cap
  UNION {{snap'.plugin.children[z][i] : i \in 1..Len(snap'.plugin.children[z])} :
           z \in DOMAIN snap'.plugin.children}

\* The step ends a drag: the engine invokes onDragEnd.
DragEndStep ==
  \E i \in 1..Len(NewCalls) : NewCalls[i].who = "public" /\ NewCalls[i].what = "dragend"

\* The element of the drag the step ends.
EndedElement ==
  NewCalls[CHOOSE i \in 1..Len(NewCalls) :
             NewCalls[i].who = "public" /\ NewCalls[i].what = "dragend"].element

\* C24: with Sortable installed, after every drag end (released over a
\* target, over no target, or cancelled) no placeholder is in the container,
\* the Sortable ghost class is not on the dragged element, and
\* getOriginalIndex() and getCurrentIndex() return -1.
C24_DragEndStep ==
  DragEndStep =>
    /\ PlaceholdersAttached = {}
    /\ snap'.plugin.placeholder = NoNode
    /\ <<EndedElement, SortableGhostClass>> \notin engine'.classes
    /\ snap'.plugin.originalIndex = -1
    /\ snap'.plugin.currentIndex = -1

C24_SortableCleanOnDragEnd == [][C24_DragEndStep]_vars

\* The step delivers a gesture-start that the user's onDragStart aborts.
AbortedStartStep ==
  \E i \in 1..Len(NewCalls) :
    /\ NewCalls[i].who = "public"
    /\ NewCalls[i].what = "dragstart"
    /\ NewCalls[i].reply \in {"false", "cancel"}

\* The plugin's tracked state is what it is between drags.
PluginIdle(plugin) ==
  /\ plugin.placeholder = NoNode
  /\ plugin.originalIndex = -1
  /\ plugin.currentIndex = -1
  /\ plugin.name = "sortable" => plugin.container = NoNode
  /\ plugin.name = "kanban" =>
       (plugin.sourceContainer = NoNode /\ plugin.targetContainer = NoNode)

\* C25: with Sortable or Kanban installed, when the user's onDragStart
\* returns false or calls cancel(), then once the gesture-start handler
\* returns no plugin placeholder is in the page, no plugin ghost class is on
\* an element, and the plugin's indices and containers are at their idle
\* values.
C25_AbortStep ==
  AbortedStartStep =>
    /\ PlaceholdersAttached = {}
    /\ \A e \in Elements : <<e, SortableGhostClass>> \notin engine'.classes
    /\ PluginIdle(snap'.plugin)

C25_AbortLeavesNoPluginState == [][C25_AbortStep]_vars

\* ------------------------------------------------------------ Kanban claims
\* The step notifies an enter, or a leave.
EnterStep == \E z \in Zones \cup {PlainZone} : Receives(z, {"dropzoneenter"})

LeaveStep == \E z \in Zones \cup {PlainZone} : Receives(z, {"dropzoneleave"})

\* C26: in Kanban, a dropzoneenter for a drop target that is no container
\* is ignored: the target never becomes the tracked container, gets
\* neither the target class nor the placeholder, and when the step leaves no
\* container the plugin's state is what it was (when it leaves one, what the
\* leave made it: no tracked container, index -1, placeholder detached). A
\* dropzoneleave for a zone other than the tracked container, with no
\* enter in the same step, changes nothing.
C26_IgnoredStep ==
  ~DragEndStep =>
    /\ \A z \in (Zones \cup {PlainZone}) \ KanbanContainers :
         Receives(z, {"dropzoneenter"}) =>
           /\ snap'.plugin.targetContainer # z
           /\ <<z, KanbanTargetClass>> \notin engine'.classes
           /\ IndexIn(snap'.plugin.children[z], snap'.plugin.placeholder) = 0
           /\ ~LeaveStep => snap'.plugin = snap.plugin
           /\ LeaveStep =>
                /\ snap'.plugin.targetContainer = NoNode
                /\ snap'.plugin.currentIndex = -1
                /\ ParentNode(snap'.plugin.children, snap'.plugin.placeholder) = NoNode
    /\ \A z \in Zones \cup {PlainZone} :
         (Receives(z, {"dropzoneleave"}) /\ z # snap.plugin.targetContainer /\ ~EnterStep) =>
           /\ snap'.plugin = snap.plugin
           /\ engine'.classes = engine.classes

C26_NonContainerIgnored == [][C26_IgnoredStep]_vars

\* A drag whose placeholder sits in a container while the pointer has
\* entered, and is over, the plain drop zone.
C26_Witness ==
  /\ snap.plugin.name = "kanban"
  /\ session # NoSession
  /\ session.dropZone = PlainZone
  /\ \E i \in 1..Len(heard) :
       heard[i].who = "public" /\ heard[i].what = "dropzoneenter" /\ heard[i].zone = PlainZone
  /\ snap.plugin.placeholder # NoNode
  /\ ParentNode(snap.plugin.children, snap.plugin.placeholder) = "z1"
  /\ snap.plugin.targetContainer = NoNode

\* The number of places the node has in the page.
Places(children, node) ==
  Sum([i \in 1..Len(DeclaredZones) + 1 |->
         LET z == IF i <= Len(DeclaredZones) THEN DeclaredZones[i] ELSE PlainZone
         IN Len(SelectSeq(children[z], LAMBDA c : c = node))])

\* In the drag in progress the pointer has left a container and entered
\* none since.
LeftLastContainer ==
  \E i \in 1..Len(heard) :
    /\ heard[i].who = "public" /\ heard[i].what = "dropzoneleave"
    /\ heard[i].zone \in KanbanContainers
    /\ \A j \in (i + 1)..Len(heard) :
         ~(heard[j].who = "public" /\ heard[j].what = "dropzoneenter"
           /\ heard[j].zone \in KanbanContainers)

\* C27: in Kanban, during a drag (every draggable of the page is a child of
\* a container): while no target container is tracked because the pointer left the last
\* container it had entered, the placeholder is attached to no container and
\* the current index is -1; while a target container is tracked, the
\* placeholder is a child of that container, once, and of no other.
C27_PlaceholderFollowsTarget ==
  (snap.plugin.name = "kanban" /\ session # NoSession) =>
     /\ (snap.plugin.targetContainer = NoNode /\ LeftLastContainer) =>
          /\ snap.plugin.placeholder # NoNode
          /\ ParentNode(snap.plugin.children, snap.plugin.placeholder) = NoNode
          /\ snap.plugin.currentIndex = -1
     /\ LeftLastContainer => snap.plugin.targetContainer = NoNode
     /\ snap.plugin.targetContainer # NoNode =>
          /\ snap.plugin.placeholder # NoNode
          /\ ParentNode(snap.plugin.children, snap.plugin.placeholder)
               = snap.plugin.targetContainer
          /\ Places(snap.plugin.children, snap.plugin.placeholder) = 1

\* A drag that entered z2 and then left it for no container.
C27_Witness ==
  /\ snap.plugin.name = "kanban"
  /\ session # NoSession
  /\ session.dropZone = NoZone
  /\ LeftLastContainer
  /\ snap.plugin.targetContainer = NoNode
  /\ snap.plugin.placeholder # NoNode
  /\ \E i \in 1..Len(heard) :
       heard[i].who = "public" /\ heard[i].what = "dropzoneenter" /\ heard[i].zone = "z2"

\* ------------------------------------------------------------ session exposure
\* C28: the state machine never exposes an ended session: between calls,
\* and whenever a listener of one of its notifications (drop and dragend
\* included) runs, the session read from DragState is absent or in phase
\* dragging, never dropping or cancelled.
C28_NoEndedSessionExposed ==
  /\ session = NoSession \/ session.phase = "dragging"
  /\ \A i \in 1..Len(emitted) : emitted[i].seen \in {"none", "dragging"}

\* ------------------------------------------------------------ sensor claims
\* The events the sensor emitted in the step.
NewLog == SubSeq(sensor'.log, Len(sensor.log) + 1, Len(sensor'.log))

\* The release finds a coalesced move pending in a started gesture.
FlushStep ==
  /\ lastCall'.op = "pointerup"
  /\ sensor.isDragging
  /\ sensor.pending # NoPoint

\* The events of the press form gesture-start, gesture-moves, and at most
\* one gesture-end or gesture-cancel, which is the last event.
WellFormedLog ==
  \A i \in 1..Len(sensor.log) :
    /\ sensor.log[i] = "pointerdown" <=> i = 1
    /\ sensor.log[i] \in {"pointerup", "pointercancel"} => i = Len(sensor.log)

\* C29: for every press the sensor tracks, its events are gesture-start,
\* then gesture-moves, then at most one gesture-end or gesture-cancel: no
\* move before the start, nothing after the end or cancel (a frame still
\* pending then delivers nothing); and a release that finds a move pending
\* in the coalescer emits that move and then gesture-end, so that the
\* engine ends the session at the pending position.
C29_FlushDelivers ==
  FlushStep =>
    /\ NewLog = <<"pointermove", "pointerup">>
    /\ (engine.subscribed /\ session # NoSession) => returned'.current = sensor.pending

C29_SensorSequence == [](WellFormedLog) /\ [][C29_FlushDelivers]_vars

\* A press that started, had a move delivered by a frame and a second move
\* delivered by the release.
C29_Witness ==
  /\ sensor.log = <<"pointerdown", "pointermove", "pointermove", "pointerup">>
  /\ lastCall.op = "pointerup"
  /\ sensor.activePointerId = NoPointer
  /\ returned # NoSession
  /\ returned.current # returned.origin

\* ------------------------------------------------------------ _findDraggable
\* A press's dispatch path, e.composedPath(), from the event target outward:
\* `matches[i]` tells whether node i matches the draggable selector, and
\* node `container` is the sensor's container (the listener is on it, so it
\* is on the path); the nodes after it are its ancestors. The nodes are
\* HTMLElements. The result is the place of the node found, 0 for null.
FirstMatch(matches, last) ==
  IF \E i \in 1..last : matches[i]
  THEN CHOOSE i \in 1..last : matches[i] /\ \A j \in 1..(i - 1) : ~matches[j]
  ELSE 0

\* target.closest(selector): the target or its nearest matching ancestor.
Element_closest(matches) == FirstMatch(matches, Len(matches))

findDraggable(matches, container) ==
  IF FirstMatch(matches, container) # 0
  THEN FirstMatch(matches, container)
  ELSE Element_closest(matches)

\* ------------------------------------------------------------ SpecFind
Paths == UNION {[1..n -> BOOLEAN] : n \in 1..MaxPath}

InitFind ==
  /\ InitState /\ InitEngine
  /\ throttle = [t |-> NewThrottle, burst |-> 0, queued |-> 0, op |-> "new"]
  /\ \E matches \in Paths, container \in 1..MaxPath :
       /\ container <= Len(matches)
       /\ probe = [fn |-> "findDraggable", matches |-> matches, container |-> container,
                   draggable |-> NotRun]

RunFindDraggable ==
  /\ probe.fn = "findDraggable"
  /\ probe.draggable = NotRun
  /\ probe' = [probe EXCEPT !.draggable = findDraggable(probe.matches, probe.container)]
  /\ UNCHANGED <<stateVars, engineVars, throttle>>

NextFind == RunFindDraggable

SpecFind == InitFind /\ [][NextFind]_vars

\* C30: the node resolved for a press is the innermost node matching the
\* draggable predicate on the path from the event target up to and including
\* the container; when no node up to the container matches, the press
\* resolves to nothing, even when an ancestor outside the container matches.
C30_ResolvesWithinContainer ==
  (probe.fn = "findDraggable" /\ probe.draggable # NotRun) =>
     probe.draggable = FirstMatch(probe.matches, probe.container)

\* ------------------------------------------------------------ order within a move
\* The places in the step's callbacks of those the test selects.
CallsWhere(test(_)) == {i \in 1..Len(NewCalls) : test(NewCalls[i])}

IsMoveCallback(c) == c.who = "public" /\ c.what = "dragmove"

IsZoneCallback(c) == c.who = "public" /\ c.what \in {"dropzoneleave", "dropzoneenter"}

IsBehaviorMove(c) == c.who # "public" /\ c.what = "onDragMove"

\* The position the engine computes for the move the step delivers: the
\* pending pointer position under the element's axis and the grid.
ConstrainedMove(element) ==
  constrained(sensor.pending, sensor.startPosition, ResolvedAxis(World, element),
              snap.options.grid)

\* C31: within one processed gesture-move the engine applies the axis and
\* grid constraint, then updates the position (dragmove to the behaviors),
\* then hit-tests with its leave and enter notifications, then invokes
\* onDragMove; the position, delta and dropZone onDragMove gets are the
\* constrained position of that move, its offset from the origin and the
\* hit-test result for it.
C31_MoveStep ==
  \A i \in CallsWhere(IsMoveCallback) :
    LET c == NewCalls[i]
        position == ConstrainedMove(c.element)
    IN /\ CallsWhere(IsMoveCallback) = {i}
       /\ c.position = position
       /\ c.delta = [x |-> position.x - sensor.startPosition.x,
                     y |-> position.y - sensor.startPosition.y]
       /\ c.zone = FoundZone(World, position)
       /\ snap.stateSubs => \E b \in CallsWhere(IsBehaviorMove) : b < i
       /\ \A b \in CallsWhere(IsBehaviorMove), z \in CallsWhere(IsZoneCallback) : b < z /\ z < i
       /\ \A y, z \in CallsWhere(IsZoneCallback) :
            (NewCalls[y].what = "dropzoneleave" /\ NewCalls[z].what = "dropzoneenter") => y < z
       /\ \A z \in CallsWhere(IsZoneCallback) :
            NewCalls[z].what = "dropzoneenter" => NewCalls[z].zone = c.zone

C31_MoveOrder == [][C31_MoveStep]_vars

\* A frame delivered a move under a grid that entered a zone: the
\* behaviors' onDragMove, the enter, then onDragMove.
C31_Witness ==
  /\ lastCall.op = "frame"
  /\ Len(heard) >= 3
  /\ IsMoveCallback(heard[Len(heard)])
  /\ heard[Len(heard)].zone # NoZone
  /\ heard[Len(heard)].position # sensor.startPosition
  /\ snap.options.grid # NoGrid
  /\ heard[Len(heard) - 1].who = "public" /\ heard[Len(heard) - 1].what = "dropzoneenter"
  /\ heard[Len(heard) - 2].what = "onDragMove"

\* ------------------------------------------------------------ hit test
\* The zones in enumeration order: the declaratively matched ones in
\* document order, then the imperatively registered ones not among them.
EnumeratedZones ==
  DeclaredZones \o SelectSeq(snap.imperativeDropZones, LAMBDA z : ~InSeq(z, DeclaredZones))

\* The rectangle of the zone holds the point, edges included.
Holds(zone, point) ==
  /\ point.x \in Rect(zone).left..Rect(zone).right
  /\ point.y \in Rect(zone).top..Rect(zone).bottom

\* ------------------------------------------------------------ SpecHits
\* Snap instances on the page with overlapping zones, each after a sequence
\* of addDropZone calls; gestures only.
Registrations == {<<>>, <<PlainZone>>, <<PlainZone, "z1">>, <<"z2", PlainZone>>}

InitHits ==
  /\ InitState
  /\ InitUnits
  /\ \E added \in Registrations :
       InitSnapOf(0, 0, "both", NoGrid, NoItemAxis, NoPlugin, added)

NextHits ==
  \/ NativePointerDown
  \/ NativePointerMove
  \/ FrameTick
  \/ NativePointerUp

SpecHits == InitHits /\ [][NextHits]_vars

\* C32: on every processed move the drop target becomes the first zone in
\* enumeration order (declaratively matched zones in document order, then
\* imperatively registered zones, without duplicates) whose rectangle holds
\* the constrained point, edges included, and null when no zone holds it;
\* among overlapping or nested zones the earliest in that order wins.
C32_HitTestStep ==
  \A i \in CallsWhere(IsMoveCallback) :
    LET c == NewCalls[i]
        zs == EnumeratedZones
        hits == {k \in 1..Len(zs) : Holds(zs[k], c.position)}
    IN /\ \A j, k \in 1..Len(zs) : zs[j] = zs[k] => j = k
       /\ hits = {} => c.zone = NoZone
       /\ \A k \in hits : (\A j \in hits : k <= j) => c.zone = zs[k]
       /\ session' # NoSession => session'.dropZone = c.zone

C32_FirstZoneWins == [][C32_HitTestStep]_vars

\* A move to a point on the edge of z1 that z2 and the imperatively
\* registered plain element hold too made z1, the earliest, the target.
C32_Witness ==
  /\ lastCall.op = "frame"
  /\ Len(heard) > 0
  /\ IsMoveCallback(heard[Len(heard)])
  /\ heard[Len(heard)].zone = "z1"
  /\ heard[Len(heard)].position.x = Rect("z1").left
  /\ Holds("z2", heard[Len(heard)].position)
  /\ Holds(PlainZone, heard[Len(heard)].position)
  /\ InSeq(PlainZone, snap.imperativeDropZones)
  /\ InSeq("z1", snap.imperativeDropZones)
  /\ session # NoSession /\ session.dropZone = "z1"

\* ------------------------------------------------------------ BoundsCache
\* A BoundsCache as a value: the elements with an entry in _cache, those in
\* _dirty, the _invalidateAll flag, and `measures`, the number of
\* getBoundingClientRect() calls the last method call made.
NewBoundsCache == [cached |-> {}, dirty |-> {}, invalidateAll |-> FALSE, measures |-> 0]

BoundsCache_update(c, element) ==
  [c EXCEPT !.cached = @ \cup {element}, !.dirty = @ \ {element}, !.measures = 1]

BoundsCache_get(c, element) ==
  IF c.invalidateAll \/ element \in c.dirty THEN BoundsCache_update(c, element)
  ELSE IF element \in c.cached THEN [c EXCEPT !.measures = 0]
  ELSE BoundsCache_update(c, element)

BoundsCache_invalidate(c, element) ==
  [c EXCEPT !.dirty = @ \cup {element}, !.measures = 0]

BoundsCache_invalidateAll(c) == [c EXCEPT !.invalidateAll = TRUE, !.measures = 0]

BoundsCache_remove(c, element) ==
  [c EXCEPT !.cached = @ \ {element}, !.measures = 0]

\* ------------------------------------------------------------ SpecCache
\* The shared boundsCache under the calls the library makes on it (no code
\* of the library calls clearDirty). `fresh` lists the elements measured
\* since they were last invalidated, by invalidateAll(), invalidate(n) or
\* remove(n).
InitCache ==
  /\ InitState /\ InitEngine
  /\ throttle = [t |-> NewThrottle, burst |-> 0, queued |-> 0, op |-> "new"]
  /\ probe = [fn |-> "cache", c |-> NewBoundsCache, op |-> "new", element |-> "none",
              calls |-> 0, fresh |-> {}]

CacheCall(c, op, element, fresh) ==
  /\ probe.fn = "cache"
  /\ probe.calls < MaxCacheCalls
  /\ probe' = [fn |-> "cache", c |-> c, op |-> op, element |-> element,
               calls |-> probe.calls + 1, fresh |-> fresh]
  /\ UNCHANGED <<stateVars, engineVars, throttle>>

RunGet ==
  \E n \in Nodes : CacheCall(BoundsCache_get(probe.c, n), "get", n, probe.fresh \cup {n})

RunUpdate ==
  \E n \in Nodes : CacheCall(BoundsCache_update(probe.c, n), "update", n, probe.fresh \cup {n})

RunInvalidate ==
  \E n \in Nodes :
    CacheCall(BoundsCache_invalidate(probe.c, n), "invalidate", n, probe.fresh \ {n})

RunInvalidateAll ==
  CacheCall(BoundsCache_invalidateAll(probe.c), "invalidateAll", "none", {})

RunRemove ==
  \E n \in Nodes : CacheCall(BoundsCache_remove(probe.c, n), "remove", n, probe.fresh \ {n})

NextCache == RunGet \/ RunUpdate \/ RunInvalidate \/ RunInvalidateAll \/ RunRemove

SpecCache == InitCache /\ [][NextCache]_vars

\* C33: the geometry cache memoizes between explicit invalidations: the
\* first get(n) after an invalidation of n measures the node, and every
\* later get(n) returns the cached rectangle without measuring, until the
\* next invalidateAll() or invalidate(n).
C33_GetStep ==
  (probe.fn = "cache" /\ probe'.op = "get") =>
     (probe'.c.measures = 0 <=> probe'.element \in probe.fresh)

C33_MemoizesBetweenInvalidations == [][C33_GetStep]_vars

\* ------------------------------------------------------------ Sortable's slot
\* The candidates of the list in the step's resulting page: the draggables
\* of the container without the dragged item (the placeholder is no
\* draggable).
Candidates ==
  SelectSeq(snap'.plugin.children[snap'.plugin.container],
            LAMBDA c : c \in Draggables /\ c # session'.element)

\* The candidates that precede the placeholder in the container.
Preceding ==
  LET nodes == snap'.plugin.children[snap'.plugin.container]
  IN {c \in Draggables :
        /\ InSeq(c, Candidates)
        /\ IndexIn(nodes, c) < IndexIn(nodes, snap'.plugin.placeholder)}

\* The candidates whose center does not lie after the cursor along the
\* axis of the list (the page's list is a row).
NotAfter(x) ==
  {c \in Draggables : InSeq(c, Candidates) /\ ~BeforeCenterX(x, ItemRect(c))}

\* C34: with the Sortable plugin, after every processed move the placeholder
\* sits in the slot the cursor designates: as many candidate siblings
\* (dragged item and placeholder excluded) precede the placeholder in the
\* container as have their center not after the cursor along the list's
\* axis, for every original index of the dragged item.
C34_SlotStep ==
  \A i \in CallsWhere(IsMoveCallback) :
    (session' # NoSession /\ snap'.plugin.name = "sortable"
       /\ snap'.plugin.placeholder # NoNode /\ snap'.plugin.container # NoNode) =>
      /\ InSeq(snap'.plugin.placeholder, snap'.plugin.children[snap'.plugin.container])
      /\ Cardinality(Preceding) = Cardinality(NotAfter(NewCalls[i].position.x))

C34_PlaceholderInCursorSlot == [][C34_SlotStep]_vars

\* ------------------------------------------------------------ dragging marker
IsStartCallback(c) == c.who = "public" /\ c.what = "dragstart"

\* C35: at gesture-start the 'snap-dragging' class is on the dragged element
\* before onDragStart is invoked: the callback, and a plugin wrapping it,
\* observes the element marked as dragging.
C35_StartStep == \A i \in CallsWhere(IsStartCallback) : NewCalls[i].dragging

C35_MarkedBeforeCallback == [][C35_StartStep]_vars

\* ------------------------------------------------------------ re-entrant listeners
\* A listener subscribed with once(): on its event it calls
\* startDrag(element, origin, data) on the DragState that is emitting.
NoListener == [on |-> "none"]

Listeners ==
  [on : {"drop", "dragend"}, element : {"b"}, origin : {[x |-> 0, y |-> 0]}, data : {"other"}]

\* EventEmitter.emit with the once-listener: once() unsubscribes, then runs
\* the callback, which enters startDrag while the emitting method is on the
\* stack. `st.listener` is the listener while it is subscribed.
reentrant_emit(st, type, s, by) ==
  LET delivered(st1) ==
        IF st1.listener.on = type
        THEN startDrag([st1 EXCEPT !.listener = NoListener], st1.listener.element,
                       st1.listener.origin, st1.listener.data)
        ELSE st1
  IN delivered(emit(st, type, s, by))

\* The session object `session` of an ending method after the emits so far:
\* a startDrag entered from a listener has handed it to cancelDrag, which
\* wrote phase and dropZone.
SessionObject(s, before, now) ==
  IF before.listener # now.listener
  THEN [s EXCEPT !.phase = "cancelled", !.dropZone = NoZone]
  ELSE s

\* DragState.endDrag with the once-listener subscribed.
reentrant_endDrag(st) ==
  IF st.session = NoSession THEN [st EXCEPT !.ret = NoSession]
  ELSE LET s == [st.session EXCEPT !.phase = "dropping"]
           dropped(st0) ==
             IF s.dropZone # NoZone THEN reentrant_emit(st0, "drop", s, "endDrag") ELSE st0
           ended(st1) == reentrant_emit(st1, "dragend", SessionObject(s, st, st1), "endDrag")
           left(st2) == [st2 EXCEPT !.session = NoSession, !.ret = SessionObject(s, st, st2)]
       IN left(ended(dropped([st EXCEPT !.session = s])))

\* DragState.cancelDrag with the once-listener subscribed.
reentrant_cancelDrag(st) ==
  IF st.session = NoSession THEN [st EXCEPT !.ret = NoSession]
  ELSE LET s == [st.session EXCEPT !.phase = "cancelled", !.dropZone = NoZone]
           left(st2) == [st2 EXCEPT !.session = NoSession, !.ret = s]
       IN left(reentrant_emit([st EXCEPT !.session = s], "dragend", s, "cancelDrag"))

\* ------------------------------------------------------------ SpecReentrant
\* A DragState with at most one such listener: it is subscribed between
\* calls, and startDrag is called with no session active.
InitReentrant ==
  /\ InitState /\ InitEngine
  /\ throttle = [t |-> NewThrottle, burst |-> <<>>, queued |-> 0, op |-> "new"]
  /\ probe = [fn |-> "listener", listener |-> NoListener]

Listening == Now @@ [listener |-> probe.listener]

Returns(st, call) ==
  /\ probe.fn = "listener"
  /\ Room
  /\ session' = st.session
  /\ idCounter' = st.idCounter
  /\ emitted' = st.emitted
  /\ returned' = st.ret
  /\ lastCall' = call
  /\ probe' = [probe EXCEPT !.listener = st.listener]
  /\ UNCHANGED <<engineVars, throttle>>

ListenOnce ==
  /\ probe.listener = NoListener
  /\ \E l \in Listeners :
       Returns([Listening EXCEPT !.listener = l, !.ret = returned],
               [op |-> "once", arg |-> NoZone])

ReentrantStartDrag ==
  /\ session = NoSession
  /\ idCounter < MaxSessions
  /\ \E e \in Elements, p \in Points, d \in DataKinds :
       Returns(startDrag(Listening, e, p, d), [op |-> "startDrag", arg |-> e])

ReentrantSetDropTarget ==
  \E z \in Zones \cup {NoZone} :
    Returns(setDropTarget(Listening, z), [op |-> "setDropTarget", arg |-> z])

ReentrantEndDrag ==
  Returns(reentrant_endDrag(Listening), [op |-> "endDrag", arg |-> NoZone])

ReentrantCancelDrag ==
  Returns(reentrant_cancelDrag(Listening), [op |-> "cancelDrag", arg |-> NoZone])

NextReentrant ==
  \/ ListenOnce
  \/ ReentrantStartDrag
  \/ ReentrantSetDropTarget
  \/ ReentrantEndDrag
  \/ ReentrantCancelDrag

SpecReentrant == InitReentrant /\ [][NextReentrant]_vars

\* The step is an endDrag or cancelDrag during which the listener ran.
ListenerRan ==
  /\ lastCall'.op \in {"endDrag", "cancelDrag"}
  /\ probe.fn = "listener" /\ probe.listener # NoListener
  /\ probe'.listener = NoListener

\* C36: DragState is safe under re-entrant listeners: when a dragend or drop
\* listener calls startDrag while endDrag or cancelDrag is emitting, the
\* session being ended gets no second dragend, and when the outer method
\* returns the session the listener created is the active session.
C36_ReentrantStep ==
  ListenerRan =>
    /\ Cardinality({i \in 1..Len(NewEvents) :
                      NewEvents[i].type = "dragend" /\ NewEvents[i].id = session.id}) = 1
    /\ session' # NoSession
    /\ session'.id = idCounter'
    /\ session'.phase = "dragging"

C36_ReentrantSafe == [][C36_ReentrantStep]_vars

\* ------------------------------------------------------------ the cancel handle
\* startEvent.cancel, the closure `() => { this._state.cancelDrag(); }`,
\* invoked by the code that kept the event object.
startEvent_cancel(w) == notify(w, cancelDrag(w.st))

\* The ids of the sessions that have ended: the engine passed a start event
\* to onDragStart for every session it created, and their handles are stale.
StaleHandles == (1..idCounter) \ {session.id}

\* ------------------------------------------------------------ SpecHandle
\* Gestures on a Snap instance whose user keeps the start events and
\* invokes the cancel() of one whose session has ended.
CallStaleCancel ==
  /\ StaleHandles # {}
  /\ Commit(startEvent_cancel(World), Call("cancel()"))

InitHandle == InitState /\ InitUnits /\ InitEngine

NextHandle ==
  \/ NativePointerDown
  \/ NativePointerMove
  \/ FrameTick
  \/ NativePointerUp
  \/ CallStaleCancel

SpecHandle == InitHandle /\ [][NextHandle]_vars

\* C37: the cancel() handle of a start event affects only the session it was
\* issued for: invoked after that session has ended it does not cancel a
\* later session, and it leaves no ghost and no dragging marker behind.
C37_StaleCancelStep ==
  lastCall'.op = "cancel()" =>
    /\ session' = session
    /\ NewEvents = <<>>
    /\ (session # NoSession /\ session' = NoSession) =>
         (engine'.ghost = NoGhost /\ engine'.bodyGhosts = {}
          /\ \A e \in Elements : <<e, "snap-dragging">> \notin engine'.classes)

C37_HandleBoundToSession == [][C37_StaleCancelStep]_vars

\* ------------------------------------------------------------ EventEmitter
\* An EventEmitter with the listeners of one event, as a value: `sets` are
\* the Set objects on() has created, each its callbacks in insertion order;
\* `current` is the place in `sets` of the Set the Map holds for the event,
\* 0 when the Map has no entry; `made` are the unsubscribe functions
\* returned so far, each closing over its Set and its callback; `called`
\* lists the callbacks the last emit invoked.
Callbacks == {"f", "g"}

NewEmitter == [sets |-> <<>>, current |-> 0, made |-> {}, called |-> <<>>]

\* Set.add
Set_add(set, callback) == IF InSeq(callback, set) THEN set ELSE Append(set, callback)

\* Set.delete
Set_delete(set, callback) == SelectSeq(set, LAMBDA c : c # callback)

EventEmitter_on(e, callback) ==
  LET created(e1) ==
        [e1 EXCEPT !.sets[e1.current] = Set_add(@, callback),
                   !.made = @ \cup {[set |-> e1.current, callback |-> callback]},
                   !.called = <<>>]
  IN created(IF e.current = 0
             THEN [e EXCEPT !.sets = Append(@, <<>>), !.current = Len(e.sets) + 1]
             ELSE e)

\* The function on() returned.
Unsubscribe(e, u) ==
  LET deleted(e1) ==
        IF e1.sets[u.set] = <<>> THEN [e1 EXCEPT !.current = 0] ELSE e1
  IN deleted([e EXCEPT !.sets[u.set] = Set_delete(@, u.callback), !.called = <<>>])

EventEmitter_emit(e) ==
  [e EXCEPT !.called = IF e.current = 0 THEN <<>> ELSE e.sets[e.current]]

\* off(event), and off() with the one event.
EventEmitter_off(e) == [e EXCEPT !.current = 0, !.called = <<>>]

\* ------------------------------------------------------------ SpecEmitter
\* `subscribed` are the callbacks subscribed at the time: those passed to
\* on() since the last off() whose unsubscribe function (any made for that
\* callback) has not been called since.
InitEmitter ==
  /\ InitState /\ InitEngine
  /\ throttle = [t |-> NewThrottle, burst |-> <<>>, queued |-> 0, op |-> "new"]
  /\ probe = [fn |-> "emitter", e |-> NewEmitter, op |-> "new", calls |-> 0,
              subscribed |-> {}]

EmitterCall(e, op, subscribed) ==
  /\ probe.fn = "emitter"
  /\ probe.calls < MaxEmitterCalls
  /\ probe' = [fn |-> "emitter", e |-> e, op |-> op, calls |-> probe.calls + 1,
               subscribed |-> subscribed]
  /\ UNCHANGED <<stateVars, engineVars, throttle>>

RunOn ==
  \E c \in Callbacks :
    EmitterCall(EventEmitter_on(probe.e, c), "on", probe.subscribed \cup {c})

RunUnsubscribe ==
  \E u \in probe.e.made :
    EmitterCall(Unsubscribe(probe.e, u), "unsubscribe", probe.subscribed \ {u.callback})

RunOff == EmitterCall(EventEmitter_off(probe.e), "off", {})

RunEmit == EmitterCall(EventEmitter_emit(probe.e), "emit", probe.subscribed)

NextEmitter == RunOn \/ RunUnsubscribe \/ RunOff \/ RunEmit

SpecEmitter == InitEmitter /\ [][NextEmitter]_vars

\* C38: an unsubscribe function removes only the callback it was created
\* for: after any sequence of on, off, emit and unsubscribe calls (the same
\* unsubscribe function called again, or after off, included) every
\* callback subscribed at the time receives each emit exactly once.
C38_EmitReachesSubscribed ==
  (probe.fn = "emitter" /\ probe.op = "emit") =>
     \A c \in probe.subscribed :
       Cardinality({i \in 1..Len(probe.e.called) : probe.e.called[i] = c}) = 1

\* ------------------------------------------------------------ rafThrottle
\* The function rafThrottle(fn) returns, as a value: the closure's rafId and
\* lastArgs, the frame callbacks it has outstanding, and what fn got.
NewRafThrottle == [rafId |-> FALSE, lastArgs |-> NoData, frames |-> 0, delivered |-> <<>>]

\* throttled(...args)
rafThrottle_throttled(f, args) ==
  LET f1 == [f EXCEPT !.lastArgs = args]
  IN IF ~f1.rafId THEN [f1 EXCEPT !.rafId = TRUE, !.frames = @ + 1] ELSE f1

\* fn(...lastArgs)
rafThrottle_fn(f, args) ==
  LET called(f1) == IF Again(args) THEN rafThrottle_throttled(f1, Echo(args)) ELSE f1
  IN called([f EXCEPT !.delivered = Append(@, args)])

\* The frame callback throttled() requested.
rafThrottle_frame(f) ==
  LET f1 == [f EXCEPT !.rafId = FALSE, !.frames = @ - 1]
  IN IF f1.lastArgs # NoData
     THEN [rafThrottle_fn(f1, f1.lastArgs) EXCEPT !.lastArgs = NoData]
     ELSE f1

rafThrottle_cancel(f) ==
  LET f1 == IF f.rafId THEN [f EXCEPT !.frames = @ - 1, !.rafId = FALSE] ELSE f
  IN [f1 EXCEPT !.lastArgs = NoData]

rafThrottle_flush(f) ==
  LET f1 == IF f.rafId THEN [f EXCEPT !.frames = @ - 1, !.rafId = FALSE] ELSE f
  IN IF f1.lastArgs # NoData
     THEN [rafThrottle_fn(f1, f1.lastArgs) EXCEPT !.lastArgs = NoData]
     ELSE f1

\* ------------------------------------------------------------ SpecCoalesce
\* A RAFThrottle and a rafThrottle function built on the same callback get
\* the same calls, and the browser runs the frames both have requested.
Values == [v : ThrottleData, again : BOOLEAN]

InitCoalesce ==
  /\ InitState /\ InitEngine
  /\ throttle = [t |-> NewThrottle, burst |-> <<>>, queued |-> 0, op |-> "new"]
  /\ probe = [fn |-> "coalesce", c |-> NewThrottle, f |-> NewRafThrottle, op |-> "new",
              calls |-> 0]

Coalesced(c, f, op) ==
  /\ probe.fn = "coalesce"
  /\ probe.calls < MaxThrottleCalls
  /\ probe' = [fn |-> "coalesce", c |-> c, f |-> f, op |-> op, calls |-> probe.calls + 1]
  /\ UNCHANGED <<stateVars, engineVars, throttle>>

BothQueue ==
  \E data \in Values :
    Coalesced(RAFThrottle_queue(probe.c, data), rafThrottle_throttled(probe.f, data), "queue")

BothFlush == Coalesced(RAFThrottle_flush(probe.c), rafThrottle_flush(probe.f), "flush")

BothCancel == Coalesced(RAFThrottle_cancel(probe.c), rafThrottle_cancel(probe.f), "cancel")

BothTick ==
  /\ probe.fn = "coalesce"
  /\ probe.c.frames > 0 \/ probe.f.frames > 0
  /\ Coalesced(IF probe.c.frames > 0 THEN RAFThrottle_process(probe.c) ELSE probe.c,
               IF probe.f.frames > 0 THEN rafThrottle_frame(probe.f) ELSE probe.f,
               "tick")

NextCoalesce == BothQueue \/ BothFlush \/ BothCancel \/ BothTick

SpecCoalesce == InitCoalesce /\ [][NextCoalesce]_vars

\* C39: the class RAFThrottle and the function rafThrottle are
\* observationally equivalent coalescers: under every interleaving of
\* queue, flush, cancel and frame ticks, a queue made from inside the
\* delivered callback included, both deliver the same sequence of values,
\* and a value queued from inside the callback stays pending for the next
\* frame tick.
C39_SameDeliveries ==
  probe.fn = "coalesce" =>
    /\ probe.c.delivered = probe.f.delivered
    /\ probe.c.pending = probe.f.lastArgs
    /\ \A i \in 1..Len(probe.f.delivered) :
         (probe.f.delivered[i].again /\ i = Len(probe.f.delivered)) =>
            probe.f.lastArgs = Echo(probe.f.delivered[i])

\* ------------------------------------------------------------ FileSensor
\* The files of a drag, the filters of FileSensorOptions, and the places of
\* the page a native drag event can target: a drop zone, or the container
\* outside every drop zone.
Files == {[type |-> "image", size |-> 1], [type |-> "text", size |-> 1],
          [type |-> "image", size |-> 3]}

FileLists == {<<>>} \cup {<<f>> : f \in Files} \cup {<<f, g>> : f \in Files, g \in Files}

FileOptions == [accept : {<<>>, <<"image">>}, maxSize : {0, 2}, multiple : BOOLEAN]

Container == "container"
Outside == "outside"

Filter(files, test(_)) == SelectSeq(files, test)

\* _matchesAccept(file, accept), for exact MIME patterns
matchesAccept(file, accept) == \E i \in DOMAIN accept : file.type = accept[i]

\* _getFiles(e)
getFiles(options, files) ==
  LET accepted(file) == matchesAccept(file, options.accept)
      small(file) == file.size <= options.maxSize
      byAccept(fs) == IF Len(options.accept) > 0 THEN Filter(fs, accepted) ELSE fs
      bySize(fs) == IF options.maxSize > 0 THEN Filter(fs, small) ELSE fs
      single(fs) == IF ~options.multiple /\ Len(fs) > 1 THEN <<fs[1]>> ELSE fs
  IN single(bySize(byAccept(files)))

\* _findDropZone(e)
findDropZone(target) == IF target \in Zones THEN target ELSE NoZone

\* _hasFiles(e)
hasFiles(files) == files # <<>>

\* new FileSensor(options) with the FileDrop plugin's handlers subscribed:
\* `classes` are the zones carrying 'snap-file-drag-over', `dropped` the
\* files handed to onFileDrop.
NewFileSensor(options) ==
  [options |-> options, dragCount |-> 0, currentDropZone |-> NoZone, classes |-> {},
   dropped |-> <<>>]

\* FileSensor.emit(event, {dropZone, files}): the handlers of
\* FileDrop._setupEventHandlers
fileSensor_emit(s, event, dropZone, files) ==
  CASE event = "dragenter" -> [s EXCEPT !.classes = @ \cup {dropZone}]
    [] event = "dragleave" -> [s EXCEPT !.classes = @ \ {dropZone}]
    [] event = "drop" -> [s EXCEPT !.classes = @ \ {dropZone}, !.dropped = files]
    [] OTHER -> s

fileSensor_onDragEnter(s, target, files) ==
  LET dropZone == findDropZone(target)
      left(s1) == IF s1.currentDropZone # NoZone
                  THEN fileSensor_emit(s1, "dragleave", s1.currentDropZone, <<>>)
                  ELSE s1
      entered(s2) == fileSensor_emit([s2 EXCEPT !.currentDropZone = dropZone],
                                     "dragenter", dropZone, <<>>)
      counted(s3) == IF dropZone = NoZone THEN s3
                     ELSE IF dropZone # s3.currentDropZone THEN entered(left(s3))
                     ELSE s3
  IN IF ~hasFiles(files) THEN s ELSE counted([s EXCEPT !.dragCount = @ + 1])

fileSensor_onDragLeave(s, files) ==
  LET counted(s1) == IF s1.dragCount = 0 /\ s1.currentDropZone # NoZone
                     THEN [fileSensor_emit(s1, "dragleave", s1.currentDropZone, <<>>)
                             EXCEPT !.currentDropZone = NoZone]
                     ELSE s1
  IN IF ~hasFiles(files) THEN s ELSE counted([s EXCEPT !.dragCount = @ - 1])

fileSensor_onDrop(s, target, files) ==
  LET dropZone == findDropZone(target)
      kept == getFiles(s.options, files)
      found(s1) == IF dropZone = NoZone THEN s1
                   ELSE IF Len(kept) = 0 THEN s1
                   ELSE [fileSensor_emit(s1, "drop", dropZone, kept)
                           EXCEPT !.currentDropZone = NoZone]
  IN found([s EXCEPT !.dragCount = 0])

\* createFileDropZone(element, options): the closure's dragCount, whether
\* the element carries 'snap-file-drag-over', and the files onDrop got.
NewFileDropZone(options) ==
  [options |-> options, dragCount |-> 0, marked |-> FALSE, dropped |-> <<>>]

handleDragEnter(z, files) ==
  LET counted(z1) == IF z1.dragCount = 1 THEN [z1 EXCEPT !.marked = TRUE] ELSE z1
  IN IF ~hasFiles(files) THEN z ELSE counted([z EXCEPT !.dragCount = @ + 1])

handleDragLeave(z, files) ==
  LET counted(z1) == IF z1.dragCount = 0 THEN [z1 EXCEPT !.marked = FALSE] ELSE z1
  IN IF ~hasFiles(files) THEN z ELSE counted([z EXCEPT !.dragCount = @ - 1])

handleDrop(z, files) ==
  LET kept == getFiles(z.options, files)
      cleared == [z EXCEPT !.dragCount = 0, !.marked = FALSE]
  IN IF Len(kept) > 0 THEN [cleared EXCEPT !.dropped = kept] ELSE cleared

\* ------------------------------------------------------------ SpecFiles
\* A container with the FileDrop plugin's FileSensor, and each of its zones
\* also made a createFileDropZone.  The browser drags `files` from outside
\* the page over the places of the container: entering a place dispatches
\* dragenter on it and then dragleave on the place left; a drop ends the drag.
InitFiles ==
  /\ InitState /\ InitEngine
  /\ throttle = [t |-> NewThrottle, burst |-> <<>>, queued |-> 0, op |-> "new"]
  /\ \E options \in FileOptions :
       probe = [fn |-> "files", sensor |-> NewFileSensor(options),
                zone |-> [z \in Zones |-> NewFileDropZone(options)],
                at |-> Outside, leaving |-> Outside, files |-> <<>>,
                op |-> "new", events |-> 0]

Dispatched(fields) ==
  /\ probe.events < MaxFileEvents
  /\ probe' = fields @@ [fn |-> "files", events |-> probe.events + 1] @@ probe
  /\ UNCHANGED <<stateVars, engineVars, throttle>>

\* dragenter on `target`, from outside the page (with new files) or from
\* another place of the container
NativeDragEnter ==
  /\ probe.fn = "files"
  /\ probe.leaving = Outside
  /\ \E target \in (Zones \cup {Container}) \ {probe.at},
        files \in (IF probe.at = Outside THEN FileLists ELSE {probe.files}) :
       Dispatched([op |-> "dragenter", at |-> target, leaving |-> probe.at, files |-> files,
                   sensor |-> fileSensor_onDragEnter(probe.sensor, target, files),
                   zone |-> [z \in Zones |->
                               IF z = target THEN handleDragEnter(probe.zone[z], files)
                               ELSE probe.zone[z]]])

\* dragleave on the place the drag has just left, or on the place it is over
\* when it leaves the page
NativeDragLeave ==
  /\ probe.fn = "files"
  /\ probe.at # Outside
  /\ LET target == IF probe.leaving # Outside THEN probe.leaving ELSE probe.at
     IN Dispatched([op |-> "dragleave", leaving |-> Outside,
                    at |-> IF probe.leaving # Outside THEN probe.at ELSE Outside,
                    sensor |-> fileSensor_onDragLeave(probe.sensor, probe.files),
                    zone |-> [z \in Zones |->
                                IF z = target THEN handleDragLeave(probe.zone[z], probe.files)
                                ELSE probe.zone[z]]])

\* drop on the place the drag is over
NativeDrop ==
  /\ probe.fn = "files"
  /\ probe.at # Outside
  /\ probe.leaving = Outside
  /\ Dispatched([op |-> "drop", at |-> Outside,
                 sensor |-> fileSensor_onDrop(probe.sensor, probe.at, probe.files),
                 zone |-> [z \in Zones |->
                             IF z = probe.at THEN handleDrop(probe.zone[z], probe.files)
                             ELSE probe.zone[z]]])

NextFiles == NativeDragEnter \/ NativeDragLeave \/ NativeDrop

SpecFiles == InitFiles /\ [][NextFiles]_vars

\* C40: after FileSensor handles a native drop event, whether or not a drop
\* zone is hit and whether or not a file passes the filters, it tracks no
\* current drop zone and no zone carries 'snap-file-drag-over', as is the
\* case for the zones made with createFileDropZone.
C40_DropStep ==
  (probe.fn = "files" /\ probe'.op = "drop" /\ probe'.events # probe.events) =>
    /\ probe'.sensor.currentDropZone = NoZone
    /\ probe'.sensor.classes = {}
    /\ \A z \in Zones : ~probe'.zone[z].marked

C40_DropClearsMarker == [][C40_DropStep]_vars
====
